---- MODULE Spec2Model ----
(***************************************************************************)
(* Market-price reconciliation and signal pipeline of the Kalshi elections *)
(* dashboard (app.py, kalshi_client.py, models.py).                        *)
(*                                                                         *)
(* Encoding of Python values                                               *)
(*   - an optional value is a tuple: None is <<>>, a value x is <<x>>;     *)
(*   - a raw price field of a market dict is a record [kind, v]: kind is   *)
(*     "None" (absent), "str" (a string float() rejects with ValueError),  *)
(*     "list" (an object float() rejects with TypeError) or "num" (a       *)
(*     finite number or numeric string; v is its value in units of         *)
(*     1/10000); integers beyond the range of a float, for which float()   *)
(*     raises OverflowError, are not among the field values;               *)
(*   - a percentage produced by round(x, 1) is an integer number of        *)
(*     tenths of a percent (56.2 is 562);                                  *)
(*   - a poll percentage is an integer number of hundredths;               *)
(*   - a string (ticker, source label) is a tuple of one-character         *)
(*     strings, so that upper() and endswith() are computed.               *)
(***************************************************************************)
EXTENDS Integers, Sequences, FiniteSets, TLC

VARIABLES
    pc,             \* position: "start"/"rendered" (script run), "call"/"return" (function)
    markets,        \* result of _discover(): [house, senate, combo] lists of market dicts
    rcp,            \* result of fetch_rcp_generic(): <<dem, rep>> in hundredths
    house_fair,     \* app.py globals computed by one run of the script
    combo_implied,
    house_direct,
    senate_direct,
    house_kalshi,
    house_source,
    senate_kalshi,
    senate_source,
    signals,
    metric_house,
    metric_senate,
    arg,            \* argument of the function applied on its own
    ret,            \* its result
    world,          \* what each external endpoint answers at present
    env,            \* KALSHI_KEY_ID and KALSHI_PRIVATE_KEY of the process
    now,            \* wall clock, in seconds
    cache,          \* st.cache_data: accessor key -> [val, at]
    requests,       \* requests sent by the last script run: endpoint -> count
    ui,             \* what the sections of the page show
    runs            \* script runs so far

vars == <<pc, markets, rcp, house_fair, combo_implied, house_direct, senate_direct,
          house_kalshi, house_source, senate_kalshi, senate_source, signals,
          metric_house, metric_senate, arg, ret,
          world, env, now, cache, requests, ui, runs>>

\* the state of the cached render cycle
cyclevars == <<world, env, now, cache, requests, ui, runs>>

(***************************************************************************)
(* Bounds of the model                                                     *)
(***************************************************************************)
MaxDirect == 2
MaxCombo == 4
MaxGrid == 6
MaxPctSteps == 14
MaxPollSteps == 5
MaxEdgeOff == 2

(***************************************************************************)
(* Python values                                                           *)
(***************************************************************************)
None == <<>>
Some(x) == <<x>>

PyNone == [kind |-> "None", v |-> 0]
PyStr == [kind |-> "str", v |-> 0]
PyList == [kind |-> "list", v |-> 0]
PyNum(n) == [kind |-> "num", v |-> n]

\* float(val): the parsed number (units of 1/10000) or the exception raised
float(val) ==
    CASE val.kind = "num" -> [exc |-> "ok", v |-> val.v]
      [] val.kind = "str" -> [exc |-> "ValueError", v |-> 0]
      [] OTHER -> [exc |-> "TypeError", v |-> 0]

\* an exception leaving a function
Raise(e) == <<"raise", e>>
IsRaise(r) == Len(r) = 2

\* round(x, 1) for x in units of 1/unit: the nearest tenth, ties to even
round1(x, unit) ==
    LET q == (x * 10) \div unit
        r == (x * 10) % unit
    IN  IF 2 * r < unit THEN q
        ELSE IF 2 * r > unit THEN q + 1
        ELSE IF q % 2 = 0 THEN q ELSE q + 1

Upper(c) ==
    CASE c = "d" -> "D"
      [] c = "r" -> "R"
      [] c = "h" -> "H"
      [] c = "s" -> "S"
      [] c = "c" -> "C"
      [] c = "x" -> "X"
      [] OTHER -> c

upper(s) == [i \in 1..Len(s) |-> Upper(s[i])]

endswith(s, suffix) ==
    /\ Len(suffix) <= Len(s)
    /\ SubSeq(s, Len(s) - Len(suffix) + 1, Len(s)) = suffix

(***************************************************************************)
(* kalshi_client.get_price_pct                                             *)
(***************************************************************************)
DollarFields == <<"yes_bid_dollars", "last_price_dollars">>
CentFields == <<"yes_bid", "last_price">>

\* the exceptions the two except clauses catch
Caught_OnlyValueError == {"ValueError"}
Caught == {"ValueError", "TypeError"}

\* one "for field in (...)" loop: the first field that is not None and parses
\* returns round(float(val) * scale, 1); None when the loop falls through
RECURSIVE TryFields(_, _, _, _)
TryFields(market, fields, i, scale) ==
    IF i > Len(fields) THEN None
    ELSE LET val == market[fields[i]]
         IN  IF val = PyNone THEN TryFields(market, fields, i + 1, scale)
             ELSE LET f == float(val)
                  IN  IF f.exc = "ok" THEN Some(round1(f.v * scale, 10000))
                      ELSE IF f.exc \in Caught
                           THEN TryFields(market, fields, i + 1, scale)
                           ELSE Raise(f.exc)

get_price_pct_CentsFirst(market) ==
    LET c == TryFields(market, CentFields, 1, 1)
    IN  IF c # None THEN c ELSE TryFields(market, DollarFields, 1, 100)

get_price_pct(market) ==
    LET d == TryFields(market, DollarFields, 1, 100)
    IN  IF d # None THEN d ELSE TryFields(market, CentFields, 1, 1)

(***************************************************************************)
(* kalshi_client.find_by_side                                              *)
(***************************************************************************)
RECURSIVE FindFrom(_, _, _)
FindFrom(market_list, suffix, i) ==
    IF i > Len(market_list) THEN None
    ELSE IF endswith(upper(market_list[i].ticker), upper(suffix))
         THEN Some(market_list[i])
         ELSE FindFrom(market_list, suffix, i + 1)

\* the most traded of the markets with the suffix
find_by_side_MostLiquid(market_list, suffix) ==
    LET hits == {i \in 1..Len(market_list) :
                    endswith(upper(market_list[i].ticker), upper(suffix))}
    IN  IF hits = {} THEN None
        ELSE Some(market_list[CHOOSE i \in hits :
                    \A j \in hits : \/ market_list[j].volume < market_list[i].volume
                                    \/ /\ market_list[j].volume = market_list[i].volume
                                       /\ i <= j])

find_by_side(market_list, suffix) == FindFrom(market_list, suffix, 1)

(***************************************************************************)
(* app.derive_from_combos                                                  *)
(***************************************************************************)
ComboSuffixes == <<"RR", "RD", "DR", "DD">>

\* f"-{suffix}"
DashSuffix(suffix) ==
    CASE suffix = "RR" -> <<"-", "R", "R">>
      [] suffix = "RD" -> <<"-", "R", "D">>
      [] suffix = "DR" -> <<"-", "D", "R">>
      [] suffix = "DD" -> <<"-", "D", "D">>

\* prices[suffix] = pct
Put(prices, suffix, pct) ==
    [k \in DOMAIN prices \cup {suffix} |-> IF k = suffix THEN pct ELSE prices[k]]

\* the inner loop: the first suffix, in order, the ticker ends with
RECURSIVE MatchSuffix(_, _)
MatchSuffix(ticker, j) ==
    IF j > Len(ComboSuffixes) THEN None
    ELSE IF endswith(ticker, DashSuffix(ComboSuffixes[j]))
         THEN Some(ComboSuffixes[j])
         ELSE MatchSuffix(ticker, j + 1)

RECURSIVE FillPrices_FirstWins(_, _, _)
FillPrices_FirstWins(combo_markets, i, prices) ==
    IF i > Len(combo_markets) THEN Some(prices)
    ELSE LET ticker == upper(combo_markets[i].ticker)
             pct == get_price_pct(combo_markets[i])
         IN  IF IsRaise(pct) THEN pct
             ELSE IF pct = None THEN FillPrices_FirstWins(combo_markets, i + 1, prices)
             ELSE LET s == MatchSuffix(ticker, 1)
                  IN  IF s = None \/ s[1] \in DOMAIN prices
                      THEN FillPrices_FirstWins(combo_markets, i + 1, prices)
                      ELSE FillPrices_FirstWins(combo_markets, i + 1,
                                                Put(prices, s[1], pct[1]))

\* the outer loop: the prices dict after the markets from index i on
RECURSIVE FillPrices(_, _, _)
FillPrices(combo_markets, i, prices) ==
    IF i > Len(combo_markets) THEN Some(prices)
    ELSE LET ticker == upper(combo_markets[i].ticker)
             pct == get_price_pct(combo_markets[i])
         IN  IF IsRaise(pct) THEN pct
             ELSE IF pct = None THEN FillPrices(combo_markets, i + 1, prices)
             ELSE LET s == MatchSuffix(ticker, 1)
                  IN  IF s = None
                      THEN FillPrices(combo_markets, i + 1, prices)
                      ELSE FillPrices(combo_markets, i + 1, Put(prices, s[1], pct[1]))

Marginals_DemHouseWrongLeg(prices) ==
    [dem_house |-> round1(prices["RD"] + prices["DD"], 10),
     rep_house |-> round1(prices["RR"] + prices["RD"], 10),
     rep_senate |-> round1(prices["RR"] + prices["DR"], 10),
     dem_senate |-> round1(prices["RD"] + prices["DD"], 10),
     combos |-> prices]

\* the returned dict; the prices are tenths, so each sum is rounded from tenths
Marginals(prices) ==
    [dem_house |-> round1(prices["DR"] + prices["DD"], 10),
     rep_house |-> round1(prices["RR"] + prices["RD"], 10),
     rep_senate |-> round1(prices["RR"] + prices["DR"], 10),
     dem_senate |-> round1(prices["RD"] + prices["DD"], 10),
     combos |-> prices]

EmptyDict == [k \in {} |-> 0]

derive_from_combos_ThreeSuffice(combo_markets) ==
    LET filled == FillPrices(combo_markets, 1, EmptyDict)
    IN  IF IsRaise(filled) THEN filled
        ELSE IF Cardinality(DOMAIN filled[1]) < 3 THEN None
        ELSE Some([combos |-> filled[1]])

derive_from_combos_RepHouseWrongLeg(combo_markets) ==
    LET filled == FillPrices(combo_markets, 1, EmptyDict)
    IN  IF IsRaise(filled) THEN filled
        ELSE IF Cardinality(DOMAIN filled[1]) < 4 THEN None
        ELSE Some([Marginals(filled[1]) EXCEPT
                      !.rep_house = round1(filled[1]["RR"] + filled[1]["DR"], 10)])

derive_from_combos(combo_markets) ==
    LET filled == FillPrices(combo_markets, 1, EmptyDict)
    IN  IF IsRaise(filled) THEN filled
        ELSE IF Cardinality(DOMAIN filled[1]) < 4 THEN None
        ELSE Some(Marginals(filled[1]))

(***************************************************************************)
(* models.rcp_to_house_fair_value, SENATE_RCP_FAIR, build_signals          *)
(***************************************************************************)
Max(a, b) == IF a >= b THEN a ELSE b
Min(a, b) == IF a <= b THEN a ELSE b

rcp_to_house_fair_value_NoClamp(dem_generic, rep_generic) ==
    LET margin == dem_generic - rep_generic
    IN  round1(5000 + (margin * 6), 100)

rcp_to_house_fair_value_RepMinusDem(dem_generic, rep_generic) ==
    LET margin == rep_generic - dem_generic
        house_prob == Max(1000, Min(9000, 5000 + (margin * 6)))
    IN  round1(house_prob, 100)

\* arguments in hundredths of a percent, result in tenths
rcp_to_house_fair_value(dem_generic, rep_generic) ==
    LET margin == dem_generic - rep_generic
        house_prob == Max(1000, Min(9000, 5000 + (margin * 6)))
    IN  round1(house_prob, 100)

\* 58.0, in tenths
SENATE_RCP_FAIR == 580

HouseSignal_AtLeast(edge) ==
    IF edge >= 80 THEN "Strong Buy"
    ELSE IF edge <= -80 THEN "Strong Sell" ELSE "Watch"

HouseSignal(edge) ==
    IF edge > 80 THEN "Strong Buy"
    ELSE IF edge < -80 THEN "Strong Sell" ELSE "Watch"

SenateSignal_HouseBand(edge) ==
    IF edge > 80 THEN "Sell"
    ELSE IF edge < -80 THEN "Buy" ELSE "Watch"

SenateSignal(edge) ==
    IF edge > 50 THEN "Sell"
    ELSE IF edge < -50 THEN "Buy" ELSE "Watch"

build_signals_ByTruthValue(h_kalshi, h_source, h_fair, s_kalshi, s_source) ==
    LET house ==
            IF Len(h_kalshi) = 1 /\ h_kalshi[1] # 0
            THEN LET edge == round1(h_kalshi[1] - h_fair, 10)
                 IN  <<[Market |-> "Dem House Control", Kalshi |-> h_kalshi[1],
                        Source |-> h_source, Fair |-> h_fair, Edge |-> edge,
                        Signal |-> HouseSignal(edge)]>>
            ELSE <<>>
        senate ==
            IF Len(s_kalshi) = 1 /\ s_kalshi[1] # 0
            THEN LET edge == round1(s_kalshi[1] - SENATE_RCP_FAIR, 10)
                 IN  <<[Market |-> "Rep Senate Control", Kalshi |-> s_kalshi[1],
                        Source |-> s_source, Fair |-> SENATE_RCP_FAIR, Edge |-> edge,
                        Signal |-> SenateSignal(edge)]>>
            ELSE <<>>
    IN  house \o senate

build_signals(h_kalshi, h_source, h_fair, s_kalshi, s_source) ==
    LET house ==
            IF h_kalshi # None
            THEN LET edge == round1(h_kalshi[1] - h_fair, 10)
                 IN  <<[Market |-> "Dem House Control",
                        Kalshi |-> h_kalshi[1],
                        Source |-> h_source,
                        Fair |-> h_fair,
                        Edge |-> edge,
                        Signal |-> HouseSignal(edge)]>>
            ELSE <<>>
        senate ==
            IF s_kalshi # None
            THEN LET edge == round1(s_kalshi[1] - SENATE_RCP_FAIR, 10)
                 IN  <<[Market |-> "Rep Senate Control",
                        Kalshi |-> s_kalshi[1],
                        Source |-> s_source,
                        Fair |-> SENATE_RCP_FAIR,
                        Edge |-> edge,
                        Signal |-> SenateSignal(edge)]>>
            ELSE <<>>
    IN  house \o senate

(***************************************************************************)
(* app.py: the script, run top to bottom once per render cycle             *)
(***************************************************************************)
\* the source labels: "", f"direct ({ticker})", "combo-implied (DR+DD)"
EmptyLabel == <<>>
DirectLabel(ticker) == <<"direct", ticker>>
ComboLabel(legs) == <<"combo-implied", legs>>
HouseLegs == <<"D", "R", "+", "D", "D">>
SenateLegs == <<"R", "R", "+", "D", "R">>

\* Python truth value of "float | None": None and 0.0 are false
Truthy(x) == x # None /\ x[1] # 0

\* lines 77-84: [kalshi, source] of the House
HouseSelect_ComboFirst(direct, implied) ==
    IF implied # None
    THEN [kalshi |-> Some(implied[1].dem_house), source |-> ComboLabel(HouseLegs)]
    ELSE IF direct # None
         THEN [kalshi |-> get_price_pct(direct[1]),
               source |-> DirectLabel(direct[1].ticker)]
         ELSE [kalshi |-> None, source |-> EmptyLabel]

\* the label of an unpriced direct market is kept when the price is the
\* combo marginal
HouseSelect_StaleLabel(direct, implied) ==
    LET k1 == IF direct # None THEN get_price_pct(direct[1]) ELSE None
        s1 == IF direct # None THEN DirectLabel(direct[1].ticker) ELSE EmptyLabel
    IN  IF k1 = None /\ implied # None
        THEN [kalshi |-> Some(implied[1].dem_house),
              source |-> IF direct # None THEN s1 ELSE ComboLabel(HouseLegs)]
        ELSE [kalshi |-> k1, source |-> s1]

HouseSelect(direct, implied) ==
    LET k1 == IF direct # None THEN get_price_pct(direct[1]) ELSE None
        s1 == IF direct # None THEN DirectLabel(direct[1].ticker) ELSE EmptyLabel
    IN  IF k1 = None /\ implied # None
        THEN [kalshi |-> Some(implied[1].dem_house), source |-> ComboLabel(HouseLegs)]
        ELSE [kalshi |-> k1, source |-> s1]

\* lines 86-93: [kalshi, source] of the Senate
SenateSelect_ComboOverwrites(direct, implied) ==
    LET k1 == IF direct # None THEN get_price_pct(direct[1]) ELSE None
        s1 == IF direct # None THEN DirectLabel(direct[1].ticker) ELSE EmptyLabel
    IN  IF implied # None
        THEN [kalshi |-> Some(implied[1].rep_senate), source |-> ComboLabel(SenateLegs)]
        ELSE [kalshi |-> k1, source |-> s1]

SenateSelect(direct, implied) ==
    LET k1 == IF direct # None THEN get_price_pct(direct[1]) ELSE None
        s1 == IF direct # None THEN DirectLabel(direct[1].ticker) ELSE EmptyLabel
    IN  IF k1 = None /\ implied # None
        THEN [kalshi |-> Some(implied[1].rep_senate), source |-> ComboLabel(SenateLegs)]
        ELSE [kalshi |-> k1, source |-> s1]

\* lines 148, 150: f"{x}%" if x else "N/A"
MetricText(x) ==
    IF Truthy(x) THEN [text |-> "pct", v |-> x[1]] ELSE [text |-> "N/A", v |-> 0]

HouseSuffix == <<"-", "D">>
SenateSuffix == <<"-", "R">>

\* lines 67-126, 148-150: selection, signals and metrics from the market
\* lists m and the poll pair r the cached accessors returned
Rendering(m, r, done) ==
    /\ LET fair == rcp_to_house_fair_value(r[1], r[2])
           implied == derive_from_combos(m.combo)
           hd == find_by_side(m.house, HouseSuffix)
           sd == find_by_side(m.senate, SenateSuffix)
           h == HouseSelect(hd, implied)
           s == SenateSelect(sd, implied)
       IN  IF IsRaise(implied) \/ IsRaise(h.kalshi) \/ IsRaise(s.kalshi)
           THEN /\ pc' = "crashed"
                /\ UNCHANGED <<house_fair, combo_implied, house_direct, senate_direct,
                               house_kalshi, house_source, senate_kalshi, senate_source,
                               signals, metric_house, metric_senate>>
           ELSE /\ pc' = done
                /\ house_fair' = Some(fair)
                /\ combo_implied' = implied
                /\ house_direct' = hd
                /\ senate_direct' = sd
                /\ house_kalshi' = h.kalshi
                /\ house_source' = h.source
                /\ senate_kalshi' = s.kalshi
                /\ senate_source' = s.source
                /\ signals' = build_signals(h.kalshi, h.source, fair, s.kalshi, s.source)
                /\ metric_house' = MetricText(h.kalshi)
                /\ metric_senate' = MetricText(s.kalshi)

\* one run of the script over the cached market lists and poll pair
RenderCycle ==
    /\ pc = "start"
    /\ Rendering(markets, rcp, "rendered")
    /\ UNCHANGED <<markets, rcp, arg, ret, cyclevars>>

(***************************************************************************)
(* Inputs                                                                  *)
(***************************************************************************)
SeqUpTo(S, n) == UNION {[1..k -> S] : k \in 0..n}

Quote(ticker, ybd, lpd, yb, lp) ==
    [ticker |-> ticker, yes_bid_dollars |-> ybd, last_price_dollars |-> lpd,
     yes_bid |-> yb, last_price |-> lp, volume |-> 0]

\* price fields of a market of the render cycle: no price, a price of 0.0
\* ("0.0000"), and 56.25 from the dollar field with a cent field that disagrees
Unpriced(ticker) == Quote(ticker, PyNone, PyNone, PyNone, PyNone)
ZeroPriced(ticker) == Quote(ticker, PyNum(0), PyNone, PyNone, PyNone)
DollarPriced(ticker) == Quote(ticker, PyNum(5625), PyNone, PyNum(550000), PyNone)

Shapes(ticker) == {Unpriced(ticker), ZeroPriced(ticker), DollarPriced(ticker)}

HouseQuotes == Shapes(<<"H", "-", "D">>) \cup {DollarPriced(<<"H", "-", "R">>)}
SenateQuotes == Shapes(<<"S", "-", "R">>) \cup {DollarPriced(<<"S", "-", "D">>)}

\* the four combo legs, each listed or not, priced RR=30, RD=20, DR=15, DD=35
ComboLeg(suffix) ==
    CASE suffix = "RR" -> Quote(<<"C", "-", "R", "R">>, PyNum(3000), PyNone, PyNone, PyNone)
      [] suffix = "RD" -> Quote(<<"C", "-", "R", "D">>, PyNum(2000), PyNone, PyNone, PyNone)
      [] suffix = "DR" -> Quote(<<"C", "-", "D", "R">>, PyNum(1500), PyNone, PyNone, PyNone)
      [] suffix = "DD" -> Quote(<<"C", "-", "D", "D">>, PyNum(3500), PyNone, PyNone, PyNone)

RECURSIVE LegsOf(_, _)
LegsOf(listed, j) ==
    IF j > Len(ComboSuffixes) THEN <<>>
    ELSE (IF ComboSuffixes[j] \in listed THEN <<ComboLeg(ComboSuffixes[j])>> ELSE <<>>)
         \o LegsOf(listed, j + 1)

RenderCombos == {LegsOf(listed, 1) : listed \in SUBSET {"RR", "RD", "DR", "DD"}}

\* the poll pair: the fallback (47.0, 43.0) or a scraped pair
RcpPairs == {<<4700, 4300>>, <<4450, 4525>>}

Unset == <<>>

\* the globals of app.py before the script has run
NotRendered ==
    /\ house_fair = Unset
    /\ combo_implied = Unset
    /\ house_direct = Unset
    /\ senate_direct = Unset
    /\ house_kalshi = Unset
    /\ house_source = Unset
    /\ senate_kalshi = Unset
    /\ senate_source = Unset
    /\ signals = <<>>
    /\ metric_house = MetricText(None)
    /\ metric_senate = MetricText(None)

\* the caches, the endpoints and the clock are not in play
Idle ==
    /\ world = <<>>
    /\ env = <<>>
    /\ now = 0
    /\ cache = <<>>
    /\ requests = <<>>
    /\ ui = <<>>
    /\ runs = 0

Init ==
    /\ pc = "start"
    /\ Idle
    /\ markets \in [house : SeqUpTo(HouseQuotes, MaxDirect),
                    senate : SeqUpTo(SenateQuotes, MaxDirect),
                    combo : RenderCombos]
    /\ rcp \in RcpPairs
    /\ NotRendered
    /\ arg = Unset
    /\ ret = Unset

Next == RenderCycle

Spec == Init /\ [][Next]_vars

(***************************************************************************)
(* The functions applied on their own, over wider inputs                   *)
(***************************************************************************)
NoMarkets == [house |-> <<>>, senate |-> <<>>, combo |-> <<>>]

\* a function applied on its own: nothing of the render cycle is in play
Standalone ==
    /\ pc = "call"
    /\ markets = NoMarkets
    /\ rcp = <<4700, 4300>>
    /\ NotRendered
    /\ ret = Unset
    /\ Idle

UnchangedRender ==
    UNCHANGED <<markets, rcp, house_fair, combo_implied, house_direct, senate_direct,
                house_kalshi, house_source, senate_kalshi, senate_source, signals,
                metric_house, metric_senate, cyclevars>>

\* raw values of a price field: absent, unparseable, or a number on a grid of
\* sixteenths (exact in binary floating point): 0.1875 steps as dollar
\* fractions and 18.75 steps as cents; every field may hold every value
FieldValues ==
    {PyNone, PyStr, PyList}
        \cup {PyNum(k * 1875) : k \in 0..MaxGrid}
        \cup {PyNum(k * 187500) : k \in 1..MaxGrid}

AllQuotes ==
    {Quote(<<"H", "-", "D">>, ybd, lpd, yb, lp) :
        ybd \in FieldValues, lpd \in FieldValues, yb \in FieldValues, lp \in FieldValues}

InitPrice ==
    /\ Standalone
    /\ arg \in AllQuotes

CallGetPricePct ==
    /\ pc = "call"
    /\ ret' = get_price_pct(arg)
    /\ pc' = "return"
    /\ UNCHANGED arg
    /\ UnchangedRender

NextPrice == CallGetPricePct

SpecPrice == InitPrice /\ [][NextPrice]_vars

\* combo quotes: a ticker with one of the four suffixes (one in lower case),
\* or with none of them, and no price, 30.0 in dollars, or 20 in cents
ComboTickers ==
    {<<"C", "-", "R", "R">>, <<"C", "-", "R", "D">>, <<"c", "-", "d", "r">>,
     <<"C", "-", "D", "D">>, <<"C", "-", "D">>}

ComboQuotes ==
    UNION {{Unpriced(t),
            Quote(t, PyNum(3000), PyNone, PyNone, PyNone),
            Quote(t, PyStr, PyNone, PyNum(200000), PyNone)} : t \in ComboTickers}

InitCombos ==
    /\ Standalone
    /\ arg \in SeqUpTo(ComboQuotes, MaxCombo)

CallDeriveFromCombos ==
    /\ pc = "call"
    /\ ret' = derive_from_combos(arg)
    /\ pc' = "return"
    /\ UNCHANGED arg
    /\ UnchangedRender

NextCombos == CallDeriveFromCombos

SpecCombos == InitCombos /\ [][NextCombos]_vars

\* the four legs, each priced on a grid of 2.5 points
PctGrid == {k * 250 : k \in 0..MaxPctSteps}

FourLegs(rr, rd, dr, dd) ==
    <<Quote(<<"C", "-", "R", "R">>, PyNum(rr), PyNone, PyNone, PyNone),
      Quote(<<"C", "-", "R", "D">>, PyNum(rd), PyNone, PyNone, PyNone),
      Quote(<<"C", "-", "D", "R">>, PyNum(dr), PyNone, PyNone, PyNone),
      Quote(<<"C", "-", "D", "D">>, PyNum(dd), PyNone, PyNone, PyNone)>>

InitMarginals ==
    /\ Standalone
    /\ arg \in {FourLegs(rr, rd, dr, dd) :
                   rr \in PctGrid, rd \in PctGrid, dr \in PctGrid, dd \in PctGrid}

SpecMarginals == InitMarginals /\ [][NextCombos]_vars

(***************************************************************************)
(* Market Selector (C1, C2, C3) and the callers of the normaliser (C7),    *)
(* checked on the finished render cycle                                    *)
(***************************************************************************)
Rendered == pc = "rendered"

\* the direct market of a chamber yields a price
DirectPriced(direct) == direct # None /\ get_price_pct(direct[1]) # None

IsComboLabel(source) == Len(source) = 2 /\ source[1] = "combo-implied"

\* C1: for each chamber, whenever the direct market exists and get_price_pct
\* yields a price for it, the selected price is that direct price and the
\* source label is "direct (<ticker>)", whatever derive_from_combos returned.
C1_DirectPreferred ==
    Rendered =>
        /\ DirectPriced(house_direct) =>
              /\ house_kalshi = get_price_pct(house_direct[1])
              /\ house_source = DirectLabel(house_direct[1].ticker)
        /\ DirectPriced(senate_direct) =>
              /\ senate_kalshi = get_price_pct(senate_direct[1])
              /\ senate_source = DirectLabel(senate_direct[1].ticker)

\* C1 witness: a priced direct House market is selected although the combo
\* derivation produced a different Dem-House marginal.
C1_Witness ==
    /\ Rendered
    /\ DirectPriced(house_direct)
    /\ combo_implied # None
    /\ combo_implied[1].dem_house # house_kalshi[1]
    /\ house_source = DirectLabel(house_direct[1].ticker)

\* C2 as stated: if a direct market for the chamber is present in the fetched
\* list, the selected price is never taken from derive_from_combos and the
\* source label is never "combo-implied".
C2_Original ==
    Rendered =>
        /\ house_direct # None => ~IsComboLabel(house_source)
        /\ senate_direct # None => ~IsComboLabel(senate_source)

\* C2 amended: the combo-derived marginal is selected only when the chamber
\* has no direct market or its direct market yields no price; a direct market
\* that yields a price is never replaced by the combo marginal.
C2_FallbackOnlyWithoutDirectPrice ==
    Rendered =>
        /\ IsComboLabel(house_source) =>
              /\ ~DirectPriced(house_direct)
              /\ combo_implied # None
              /\ house_kalshi = Some(combo_implied[1].dem_house)
        /\ IsComboLabel(senate_source) =>
              /\ ~DirectPriced(senate_direct)
              /\ combo_implied # None
              /\ senate_kalshi = Some(combo_implied[1].rep_senate)

\* C2 witness: the Senate has a direct market without a price and the combo
\* marginal is selected in its place.
C2_Witness ==
    /\ Rendered
    /\ senate_direct # None
    /\ ~DirectPriced(senate_direct)
    /\ IsComboLabel(senate_source)
    /\ senate_kalshi = Some(combo_implied[1].rep_senate)

\* C3 as stated: for each chamber, whenever the selected price is None the
\* source label is the empty string.
C3_UnavailableHasEmptyLabel ==
    Rendered =>
        /\ house_kalshi = None => house_source = EmptyLabel
        /\ senate_kalshi = None => senate_source = EmptyLabel

\* C7 as stated: a selected chamber price of exactly 0.0 is handled as a real
\* price everywhere in the render cycle: a signal is emitted for it, it is not
\* replaced by the combinatorial fallback, and the chamber metric does not
\* display "N/A"; only a None price is shown as unavailable.
HasSignal(market) == \E i \in 1..Len(signals) : signals[i].Market = market

C7_ZeroIsARealPrice ==
    Rendered =>
        /\ house_kalshi = Some(0) =>
              /\ HasSignal("Dem House Control")
              /\ (DirectPriced(house_direct) => ~IsComboLabel(house_source))
              /\ metric_house.text # "N/A"
        /\ senate_kalshi = Some(0) =>
              /\ HasSignal("Rep Senate Control")
              /\ (DirectPriced(senate_direct) => ~IsComboLabel(senate_source))
              /\ metric_senate.text # "N/A"
        /\ house_kalshi = None => metric_house.text = "N/A"
        /\ senate_kalshi = None => metric_senate.text = "N/A"

(***************************************************************************)
(* Price Normalizer (C4, C5, C6), checked under SpecPrice                  *)
(***************************************************************************)
Returned == pc = "return"

\* a field is present and float() accepts it
Parseable(val) == val.kind = "num"

FieldOrder == <<"yes_bid_dollars", "last_price_dollars", "yes_bid", "last_price">>

\* the factor that turns a field's unit into percent
Scale(field) == IF field \in {"yes_bid_dollars", "last_price_dollars"} THEN 100 ELSE 1

\* t tenths is a value x/10000 rounded to one decimal place
IsRounded(t, x) == 2 * (t * 1000 - x) <= 1000 /\ 2 * (x - t * 1000) <= 1000

\* the result is the percentage of field number i, rounded to one decimal
FromField(r, market, i) ==
    /\ Len(r) = 1
    /\ IsRounded(r[1], market[FieldOrder[i]].v * Scale(FieldOrder[i]))

\* field number i is the first valid one among the fields numbered lo..hi
FirstValid(market, i, lo, hi) ==
    /\ i \in lo..hi
    /\ Parseable(market[FieldOrder[i]])
    /\ \A j \in lo..(i - 1) : ~Parseable(market[FieldOrder[j]])

\* C4: get_price_pct returns round(v*100, 1) when a valid fractional-dollar
\* field v is present and round(c, 1) when only a valid integer-cent field c
\* is present; when a valid dollar field and a valid cent field are both
\* present, the dollar field determines the result.
C4_DollarThenCent ==
    Returned =>
        /\ \A i \in 1..2 : FirstValid(arg, i, 1, 2) => FromField(ret, arg, i)
        /\ (\A i \in 1..2 : ~Parseable(arg[FieldOrder[i]])) =>
              \A i \in 3..4 : FirstValid(arg, i, 3, 4) => FromField(ret, arg, i)

\* C4 witness: a valid dollar field and a valid cent field that disagree, and
\* the result is the dollar field's 56.25, rounded to 56.2.
C4_Witness ==
    /\ Returned
    /\ arg.yes_bid_dollars = PyNum(5625)
    /\ arg.yes_bid = PyNum(375000)
    /\ ret = Some(562)

\* C5 as stated: the value returned by get_price_pct is None or a percentage
\* within [0,100].
C5_WithinZeroToHundred ==
    Returned => (ret = None \/ (Len(ret) = 1 /\ ret[1] >= 0 /\ ret[1] <= 1000))

SuffixSet == {"RR", "RD", "DR", "DD"}

\* the quotes of the list that carry a price and whose ticker names the bucket
PricedIn(combo_markets, suffix) ==
    {i \in 1..Len(combo_markets) :
        /\ endswith(upper(combo_markets[i].ticker), DashSuffix(suffix))
        /\ \E f \in {"yes_bid_dollars", "last_price_dollars", "yes_bid", "last_price"} :
              Parseable(combo_markets[i][f])}

AllFourPriced(combo_markets) ==
    \A suffix \in SuffixSet : PricedIn(combo_markets, suffix) # {}

\* C8: when all four buckets have a normalized price, derive_from_combos
\* returns dem_house = DR+DD, rep_house = RR+RD, rep_senate = RR+DR and
\* dem_senate = RD+DD (one decimal), with the raw map whose keys are exactly
\* RR, RD, DR, DD and whose values are prices of quotes of those buckets.
C8_Marginals ==
    (Returned /\ AllFourPriced(arg)) =>
        /\ Len(ret) = 1
        /\ DOMAIN ret[1].combos = SuffixSet
        /\ \A suffix \in SuffixSet :
              \E i \in PricedIn(arg, suffix) :
                  Some(ret[1].combos[suffix]) = get_price_pct(arg[i])
        /\ ret[1].dem_house = ret[1].combos["DR"] + ret[1].combos["DD"]
        /\ ret[1].rep_house = ret[1].combos["RR"] + ret[1].combos["RD"]
        /\ ret[1].rep_senate = ret[1].combos["RR"] + ret[1].combos["DR"]
        /\ ret[1].dem_senate = ret[1].combos["RD"] + ret[1].combos["DD"]

\* C8 witness: RR=30, RD=20, DR=20, DD=30 gives a Dem-House marginal of 50.0
\* and a Rep-House marginal of 50.0 from different legs.
C8_Witness ==
    /\ Returned
    /\ AllFourPriced(arg)
    /\ Len(ret) = 1
    /\ ret[1].combos = [k \in SuffixSet |-> IF k \in {"RR", "DD"} THEN 300 ELSE 200]
    /\ ret[1].dem_house = 500
    /\ ret[1].rep_senate = 500

\* C9: derive_from_combos returns None whenever fewer than 4 of the 4 buckets
\* have a valid normalized price, for every list of combo quotes, and returns
\* a result whenever all four have one.
C9_InsufficientData ==
    Returned => (ret = None <=> ~AllFourPriced(arg))

\* C9 witness: three buckets priced, one of them twice, and the quote of the
\* fourth bucket without a price: the result is None.
C9_Witness ==
    /\ Returned
    /\ ret = None
    /\ Len(arg) = 4
    /\ Cardinality({suffix \in SuffixSet : PricedIn(arg, suffix) # {}}) = 3
    /\ \E suffix \in SuffixSet :
          /\ PricedIn(arg, suffix) = {}
          /\ \E i \in 1..Len(arg) : endswith(upper(arg[i].ticker), DashSuffix(suffix))

\* C10: for four outcome percentages that sum to 100, the derived marginals
\* satisfy dem_house + rep_house = 100 and rep_senate + dem_senate = 100, so
\* the four marginals sum to 200.0.
SumOfLegs(r) == r.combos["RR"] + r.combos["RD"] + r.combos["DR"] + r.combos["DD"]

C10_MarginalsConserve ==
    (Returned /\ Len(ret) = 1 /\ SumOfLegs(ret[1]) = 1000) =>
        /\ ret[1].dem_house + ret[1].rep_house = 1000
        /\ ret[1].rep_senate + ret[1].dem_senate = 1000
        /\ ret[1].dem_house + ret[1].rep_house
              + ret[1].rep_senate + ret[1].dem_senate = 2000

\* C10 witness: RR=30, RD=20, DR=15, DD=35 gives dem_house = 50.0 and
\* rep_senate = 45.0.
C10_Witness ==
    /\ Returned
    /\ arg = FourLegs(3000, 2000, 1500, 3500)
    /\ Len(ret) = 1
    /\ ret[1].dem_house = 500
    /\ ret[1].rep_senate = 450


(***************************************************************************)
(* Fair-Value Model (C11 under SpecFair, C12 under SpecMonotone)           *)
(***************************************************************************)
\* poll percentages, in hundredths: 30.00 to 55.00 in steps of 5, and for the
\* Democrats also 0.01 and 0.33 above each step
PollSteps == {3000 + 500 * k : k \in 0..MaxPollSteps}
DemValues == {p + off : p \in PollSteps, off \in {0, 1, 33}}
PollPairs == DemValues \X PollSteps

InitFair ==
    /\ Standalone
    /\ arg \in PollPairs

CallFairValue ==
    /\ pc = "call"
    /\ ret' = Some(rcp_to_house_fair_value(arg[1], arg[2]))
    /\ pc' = "return"
    /\ UNCHANGED arg
    /\ UnchangedRender

NextFair == CallFairValue

SpecFair == InitFair /\ [][NextFair]_vars

\* 50 + 6 * margin clamped to [10, 90], in hundredths
ClampedLine(dem, rep) ==
    LET x == 5000 + 6 * (dem - rep)
    IN  IF x < 1000 THEN 1000 ELSE IF x > 9000 THEN 9000 ELSE x

\* C11: for every pair (dem%, rep%), rcp_to_house_fair_value returns
\* clamp(50 + 6*(dem% - rep%), 10, 90) rounded to one decimal, so the result
\* lies in [10,90] (margin 0 gives 50.0, +10 gives 90.0, -20 gives 10.0) and
\* is fixed by the two arguments alone.
C11_ClampedLinear ==
    Returned =>
        /\ Len(ret) = 1
        /\ ret[1] >= 100 /\ ret[1] <= 900
        /\ 2 * (10 * ret[1] - ClampedLine(arg[1], arg[2])) <= 10
        /\ 2 * (ClampedLine(arg[1], arg[2]) - 10 * ret[1]) <= 10
        /\ arg[1] = arg[2] => ret[1] = 500
        /\ arg[1] - arg[2] = 1000 => ret[1] = 900
        /\ arg[1] - arg[2] = -2000 => ret[1] = 100

\* C11 witness: a margin of +10 (50 + 60 = 110) is clamped to 90.0.
C11_Witness ==
    /\ Returned
    /\ arg = <<5000, 4000>>
    /\ ret = Some(900)

\* two calls, one after the other
InitMonotone ==
    /\ Standalone
    /\ arg \in PollPairs \X PollPairs

CallFairValueFirst ==
    /\ pc = "call"
    /\ ret' = <<rcp_to_house_fair_value(arg[1][1], arg[1][2])>>
    /\ pc' = "second"
    /\ UNCHANGED arg
    /\ UnchangedRender

CallFairValueSecond ==
    /\ pc = "second"
    /\ ret' = Append(ret, rcp_to_house_fair_value(arg[2][1], arg[2][2]))
    /\ pc' = "return"
    /\ UNCHANGED arg
    /\ UnchangedRender

NextMonotone == CallFairValueFirst \/ CallFairValueSecond

SpecMonotone == InitMonotone /\ [][NextMonotone]_vars

\* C12: rcp_to_house_fair_value is monotonically non-decreasing in the margin:
\* for two inputs with margins m1 <= m2 the fair value of the first is at most
\* that of the second.
C12_Monotone ==
    Returned =>
        (arg[1][1] - arg[1][2] <= arg[2][1] - arg[2][2] => ret[1] <= ret[2])

\* C12 witness: margins -5 and +0.33 give 20.0 and 52.0.
C12_Witness ==
    /\ Returned
    /\ arg = <<<<4000, 4500>>, <<4533, 4500>>>>
    /\ ret = <<200, 520>>

(***************************************************************************)
(* Signal Generator (C13, C14, C15), checked under SpecSignals             *)
(***************************************************************************)
\* distances of a price from the fair value, in tenths: around the band of
\* the chamber on both sides, and the examples of the specification
Deltas(band) ==
    {sign * (band + e) : sign \in {-1, 1}, e \in (0 - MaxEdgeOff)..MaxEdgeOff}
        \cup {-100, -80, 20, 70, 100}

HouseFairs == {500, 740}

SignalArgs ==
    {[house_kalshi |-> hk, house_source |-> DirectLabel(<<"H", "-", "D">>),
      house_fair |-> hf, senate_kalshi |-> sk,
      senate_source |-> ComboLabel(SenateLegs)] :
        hf \in HouseFairs,
        hk \in {None, Some(0)} \cup {Some(500 + d) : d \in Deltas(80)},
        sk \in {None, Some(0)} \cup {Some(SENATE_RCP_FAIR + d) : d \in Deltas(50)}}

InitSignals ==
    /\ Standalone
    /\ arg \in SignalArgs

CallBuildSignals ==
    /\ pc = "call"
    /\ ret' = Some(build_signals(arg.house_kalshi, arg.house_source, arg.house_fair,
                                 arg.senate_kalshi, arg.senate_source))
    /\ pc' = "return"
    /\ UNCHANGED arg
    /\ UnchangedRender

NextSignals == CallBuildSignals

SpecSignals == InitSignals /\ [][NextSignals]_vars

\* the records of a chamber in the returned list
RecordsOf(list, market) == {i \in 1..Len(list) : list[i].Market = market}

\* C13: for every available House price and fair value the House signal is
\* "Strong Buy" iff edge > 8, "Strong Sell" iff edge < -8 and "Watch"
\* otherwise (edge exactly 8 or -8 is "Watch"), with edge = round(price -
\* fair, 1); it is never "Buy" or "Sell".
C13_HouseBands ==
    (Returned /\ arg.house_kalshi # None) =>
        /\ RecordsOf(ret[1], "Dem House Control") # {}
        /\ \A i \in RecordsOf(ret[1], "Dem House Control") :
              LET edge == arg.house_kalshi[1] - arg.house_fair
                  sig == ret[1][i].Signal
              IN  /\ ret[1][i].Edge = edge
                  /\ sig = "Strong Buy" <=> edge > 80
                  /\ sig = "Strong Sell" <=> edge < -80
                  /\ sig = "Watch" <=> (edge >= -80 /\ edge <= 80)
                  /\ sig \notin {"Buy", "Sell"}

\* C13 witness: price 58.0 against fair 50.0 is an edge of exactly 8: "Watch".
C13_Witness ==
    /\ Returned
    /\ arg.house_kalshi = Some(580)
    /\ arg.house_fair = 500
    /\ ret[1][1].Market = "Dem House Control"
    /\ ret[1][1].Edge = 80
    /\ ret[1][1].Signal = "Watch"

\* C14: for every available Senate price the Senate edge is computed against
\* the constant 58.0, whatever the House fair value is, and the signal is
\* "Sell" iff edge > 5, "Buy" iff edge < -5 and "Watch" otherwise (edge
\* exactly 5 or -5 is "Watch").
C14_SenateBands ==
    (Returned /\ arg.senate_kalshi # None) =>
        /\ RecordsOf(ret[1], "Rep Senate Control") # {}
        /\ \A i \in RecordsOf(ret[1], "Rep Senate Control") :
              LET edge == arg.senate_kalshi[1] - 580
                  sig == ret[1][i].Signal
              IN  /\ ret[1][i].Fair = 580
                  /\ ret[1][i].Edge = edge
                  /\ sig = "Sell" <=> edge > 50
                  /\ sig = "Buy" <=> edge < -50
                  /\ sig = "Watch" <=> (edge >= -50 /\ edge <= 50)

\* C14 witness: with a House fair value of 74.0, a Senate price of 65.0 is an
\* edge of 7 against 58.0: "Sell".
C14_Witness ==
    /\ Returned
    /\ arg.house_fair = 740
    /\ arg.senate_kalshi = Some(650)
    /\ \E i \in RecordsOf(ret[1], "Rep Senate Control") :
          ret[1][i].Edge = 70 /\ ret[1][i].Signal = "Sell"

\* C15: build_signals emits a Signal for a chamber if and only if the price
\* of the chamber is not None: at most one record per chamber, House before
\* Senate, none when both prices are unavailable, and in every record
\* "Edge %" = round("Kalshi %" - "RCP Fair %", 1).
C15_OneSignalPerAvailablePrice ==
    Returned =>
        LET house == RecordsOf(ret[1], "Dem House Control")
            senate == RecordsOf(ret[1], "Rep Senate Control")
        IN  /\ Cardinality(house) = (IF arg.house_kalshi # None THEN 1 ELSE 0)
            /\ Cardinality(senate) = (IF arg.senate_kalshi # None THEN 1 ELSE 0)
            /\ Len(ret[1]) = Cardinality(house) + Cardinality(senate)
            /\ \A i \in house : \A j \in senate : i < j
            /\ \A i \in house : ret[1][i].Kalshi = arg.house_kalshi[1]
            /\ \A j \in senate : ret[1][j].Kalshi = arg.senate_kalshi[1]
            /\ \A i \in 1..Len(ret[1]) :
                  ret[1][i].Edge = ret[1][i].Kalshi - ret[1][i].Fair

\* C15 witness: a House price of 0.0 and no Senate price give exactly one
\* record, the House one.
C15_Witness ==
    /\ Returned
    /\ arg.house_kalshi = Some(0)
    /\ arg.senate_kalshi = None
    /\ Len(ret[1]) = 1
    /\ ret[1][1].Market = "Dem House Control"
    /\ ret[1][1].Edge = 0 - arg.house_fair

(***************************************************************************)
(* The external endpoints and the accessors that read them                 *)
(***************************************************************************)
\* an endpoint answers with a body, or the request fails (connection error,
\* timeout, non-2xx status or a body that is not JSON)
Up(body) == [ok |-> TRUE, body |-> body]
Down(body) == [ok |-> FALSE, body |-> body]

\* kalshi_client.kalshi_get (KalshiAuth.get alike): the JSON body, or the
\* exception of requests.get / raise_for_status / resp.json
kalshi_get(resp) == IF resp.ok THEN Some(resp.body) ELSE Raise("RequestException")

\* requests.get is called once per kalshi_get: no session, adapter or loop
\* repeats it
Attempts_RetryOnFailure(resp) == IF resp.ok THEN 1 ELSE 2

Attempts(resp) == 1

\* kalshi_client.discover_all_markets, one pass of the loop: the try/except
\* is inside the loop, a failing series leaves its list empty
DiscoverSeries(resp) ==
    LET data == kalshi_get(resp)
    IN  IF IsRaise(data) THEN <<>> ELSE data[1]

discover_all_markets_OneTry(w) ==
    IF ~w.house.ok \/ ~w.senate.ok \/ ~w.combo.ok
    THEN [house |-> <<>>, senate |-> <<>>, combo |-> <<>>]
    ELSE [house |-> w.house.body, senate |-> w.senate.body, combo |-> w.combo.body]

discover_all_markets(w) ==
    [house |-> DiscoverSeries(w.house),
     senate |-> DiscoverSeries(w.senate),
     combo |-> DiscoverSeries(w.combo)]

\* kalshi_client.fetch_market_price
fetch_market_price(resp) ==
    LET data == kalshi_get(resp)
    IN  IF IsRaise(data) THEN None
        ELSE LET p == get_price_pct(data[1])
             IN  IF IsRaise(p) THEN None ELSE p

\* kalshi_client.fetch_balance
fetch_balance(resp) ==
    LET data == kalshi_get(resp)
    IN  IF IsRaise(data) THEN None
        ELSE Some([balance_cents |-> data[1].balance,
                   portfolio_value_cents |-> data[1].portfolio_value])

\* kalshi_client.fetch_positions, fetch_resting_orders, fetch_settlements
FetchList(resp) ==
    LET data == kalshi_get(resp)
    IN  IF IsRaise(data) THEN <<>> ELSE data[1]

fetch_positions(resp) == FetchList(resp)
fetch_resting_orders(resp) == FetchList(resp)
fetch_settlements(resp) == FetchList(resp)

\* charts.fetch_candlesticks: the rows of the frame (close prices); a candle
\* without close or timestamp is skipped, a close that does not parse is
\* dropped by dropna
KeepsCandle(c) == c.ts /\ float(c.close).exc = "ok"

EmptyFrame == <<>>

fetch_candlesticks(resp) ==
    LET data == kalshi_get(resp)
    IN  IF IsRaise(data) THEN EmptyFrame
        ELSE SelectSeq(data[1], KeepsCandle)

(***************************************************************************)
(* rcp.fetch_rcp_generic                                                   *)
(***************************************************************************)
\* a text of the page is [match, dem, rep]: whether the pattern matches it,
\* and the two matched digit-and-dot strings (a number in units of 1/10000,
\* or a string such as "1.2.3" that float() rejects).
\* lines 30-36 over the texts from index i on: the first text whose two
\* numbers parse decides; a ValueError moves on to the next text
RECURSIVE ScanTexts(_, _)
ScanTexts(texts, i) ==
    IF i > Len(texts) THEN None
    ELSE IF ~texts[i].match THEN ScanTexts(texts, i + 1)
    ELSE LET d == float(texts[i].dem)
             r == float(texts[i].rep)
         IN  IF d.exc = "ok" /\ r.exc = "ok"
             THEN Some(<<d.v \div 100, r.v \div 100>>)
             ELSE IF d.exc = "ValueError" \/ (d.exc = "ok" /\ r.exc = "ValueError")
                  THEN ScanTexts(texts, i + 1)
                  ELSE Raise("TypeError")

\* lines 39, 42
Fallback == <<4700, 4300>>

\* the result [exc, v]: exc is "ok" and v the pair returned, or exc is the
\* exception that leaves the function
fetch_rcp_generic_Unguarded(response) ==
    IF response.status # "ok" THEN [exc |-> "RequestException", v |-> Fallback]
    ELSE IF ~response.has_body THEN [exc |-> "AttributeError", v |-> Fallback]
    ELSE LET found == ScanTexts(response.candidates \o <<response.body_text>>, 1)
         IN  IF found = None \/ IsRaise(found) THEN [exc |-> "ok", v |-> Fallback]
             ELSE [exc |-> "ok", v |-> found[1]]

fetch_rcp_generic(response) ==
    IF response.status # "ok"
    THEN [exc |-> "ok", v |-> Fallback]           \* lines 18-19 raise, 40-42
    ELSE IF ~response.has_body
    THEN [exc |-> "ok", v |-> Fallback]           \* soup.body is None, 40-42
    ELSE LET found == ScanTexts(response.candidates \o <<response.body_text>>, 1)
         IN  IF IsRaise(found) THEN [exc |-> "ok", v |-> Fallback]
             ELSE IF found = None THEN [exc |-> "ok", v |-> Fallback]
             ELSE [exc |-> "ok", v |-> found[1]]

(***************************************************************************)
(* kalshi_client.load_auth                                                 *)
(***************************************************************************)
\* os.getenv(name, "").strip() is empty: the variable is unset, empty or blank
IsEmpty(value) == value \in {"unset", "empty", "blank"}

\* None, or the KalshiAuth object; a key that does not load as PEM makes the
\* constructor raise
load_auth_KeyIdOnly(e) ==
    IF IsEmpty(e.key_id) THEN None ELSE Some("KalshiAuth")

load_auth(e) ==
    IF IsEmpty(e.key_id) \/ IsEmpty(e.private_key) \/ e.private_key = "placeholder"
    THEN None
    ELSE IF e.private_key = "invalid" THEN None
    ELSE Some("KalshiAuth")

(***************************************************************************)
(* st.cache_data: every accessor keeps its return value for ttl seconds    *)
(***************************************************************************)
\* the key of an entry: the accessor and its hashed argument (a ticker);
\* the _auth argument of the portfolio accessors is not hashed
DiscoverKey == <<"discover", <<>>>>
RcpKey == <<"rcp", <<>>>>
BalanceKey == <<"balance", <<>>>>
PositionsKey == <<"positions", <<>>>>
OrdersKey == <<"orders", <<>>>>
SettlementsKey == <<"settlements", <<>>>>
CandlesKey(ticker) == <<"candles", ticker>>
PriceKey(ticker) == <<"price", ticker>>

\* the ttl argument of each decorator, in seconds
TTL(key) ==
    CASE key[1] = "discover" -> 120
      [] key[1] = "rcp" -> 600
      [] key[1] = "candles" -> 300
      [] key[1] = "price" -> 120
      [] key[1] = "balance" -> 120
      [] key[1] = "positions" -> 120
      [] key[1] = "orders" -> 120
      [] key[1] = "settlements" -> 300

\* the entry of key is served at time t
Fresh_Never(c, key, t) == FALSE

\* one lifetime for all: an expired entry takes every other with it
Fresh_SharedExpiry(c, key, t) ==
    key \in DOMAIN c /\ \A k \in DOMAIN c : t < c[k].at + TTL(k)

Fresh(c, key, t) == key \in DOMAIN c /\ t < c[key].at + TTL(key)

\* the decorated function itself, run against the endpoints
Fetch(key, w) ==
    CASE key[1] = "discover" -> discover_all_markets(w)
      [] key[1] = "rcp" -> fetch_rcp_generic(w.poll)
      [] key[1] = "candles" -> fetch_candlesticks(w.candles)
      [] key[1] = "price" -> fetch_market_price(w.price)
      [] key[1] = "balance" -> fetch_balance(w.balance)
      [] key[1] = "positions" -> fetch_positions(w.positions)
      [] key[1] = "orders" -> fetch_resting_orders(w.orders)
      [] key[1] = "settlements" -> fetch_settlements(w.settlements)

\* the endpoints a run of the decorated function sends a request to
SeriesEndpoint(category) == <<"markets", <<category>>>>

EndpointsOf(key) ==
    IF key = DiscoverKey
    THEN {SeriesEndpoint("house"), SeriesEndpoint("senate"), SeriesEndpoint("combo")}
    ELSE {key}

ResponseOf(endpoint, w) ==
    CASE endpoint = SeriesEndpoint("house") -> w.house
      [] endpoint = SeriesEndpoint("senate") -> w.senate
      [] endpoint = SeriesEndpoint("combo") -> w.combo
      [] endpoint[1] = "rcp" -> [ok |-> w.poll.status = "ok", body |-> w.poll]
      [] endpoint[1] = "candles" -> w.candles
      [] endpoint[1] = "price" -> w.price
      [] endpoint[1] = "balance" -> w.balance
      [] endpoint[1] = "positions" -> w.positions
      [] endpoint[1] = "orders" -> w.orders
      [] endpoint[1] = "settlements" -> w.settlements

\* a call of a cached accessor
Cached(c, key, t, w) == IF Fresh(c, key, t) THEN c[key].val ELSE Fetch(key, w)

\* the cache after the accessors of keys were called at time t
Store(c, keys, t, w) ==
    LET missed == {k \in keys : ~Fresh(c, k, t)}
    IN  [k \in DOMAIN c \cup missed |->
            IF k \in missed THEN [val |-> Fetch(k, w), at |-> t] ELSE c[k]]

\* the requests these calls sent
Sent(c, keys, t, w) ==
    LET missed == {k \in keys : ~Fresh(c, k, t)}
    IN  [e \in UNION {EndpointsOf(k) : k \in missed} |-> Attempts(ResponseOf(e, w))]

(***************************************************************************)
(* app.py: the script, through the caches                                  *)
(***************************************************************************)
\* lines 421-431, 446-455: the markets whose candlesticks are fetched
ComboCharted(ticker) ==
    \E j \in 1..Len(ComboSuffixes) : endswith(upper(ticker), DashSuffix(ComboSuffixes[j]))

DirectTickers(m) ==
    LET hd == find_by_side(m.house, HouseSuffix)
        sd == find_by_side(m.senate, SenateSuffix)
    IN  (IF hd # None THEN {hd[1].ticker} ELSE {})
            \cup (IF sd # None THEN {sd[1].ticker} ELSE {})

ComboChartTickers(m) ==
    {m.combo[i].ticker : i \in {j \in 1..Len(m.combo) : ComboCharted(m.combo[j].ticker)}}

\* lines 250-259: the price of a position's market among the fetched lists
RECURSIVE FirstTicker(_, _, _)
FirstTicker(market_list, ticker, i) ==
    IF i > Len(market_list) THEN None
    ELSE IF market_list[i].ticker = ticker THEN Some(market_list[i])
    ELSE FirstTicker(market_list, ticker, i + 1)

CategoryPrice(market_list, ticker) ==
    LET found == FirstTicker(market_list, ticker, 1)
    IN  IF found = None THEN None ELSE get_price_pct(found[1])

ListedPrice(m, ticker) ==
    LET h == CategoryPrice(m.house, ticker)
        s == CategoryPrice(m.senate, ticker)
    IN  IF h # None THEN h ELSE IF s # None THEN s ELSE CategoryPrice(m.combo, ticker)

\* lines 221-222: positions of size zero are skipped
IsHeld(p) == p.position # 0

\* the accessors one run calls: the public ones, and with credentials the
\* portfolio ones
PublicKeys(m) ==
    {DiscoverKey, RcpKey} \cup {CandlesKey(t) : t \in DirectTickers(m) \cup ComboChartTickers(m)}

PortfolioKeys(auth, m, positions) ==
    IF auth = None THEN {}
    ELSE {BalanceKey, PositionsKey, OrdersKey, SettlementsKey}
            \cup {PriceKey(positions[i].ticker) :
                    i \in {j \in 1..Len(positions) :
                            /\ IsHeld(positions[j])
                            /\ ListedPrice(m, positions[j].ticker) = None}}

\* what the sections of the page show
Sections(auth, m, implied, sigs, frames, balance, positions, price, orders, settlements) ==
    [signals |-> IF sigs # <<>> THEN "table" ELSE "No signals available.",
     combo |-> IF implied # None THEN "table" ELSE "hidden",
     portfolio |-> IF auth # None THEN "Portfolio" ELSE "caption",
     balance |-> IF auth = None THEN "hidden"
                 ELSE IF balance # None THEN "metrics" ELSE "Balance fetch failed",
     positions |-> IF auth = None THEN "hidden"
                   ELSE IF SelectSeq(positions, IsHeld) # <<>> THEN "table"
                   ELSE "No open positions.",
     pos_rows |-> IF auth = None THEN <<>>
                  ELSE LET held == SelectSeq(positions, IsHeld)
                       IN  [i \in 1..Len(held) |->
                              [Ticker |-> held[i].ticker,
                               Price |-> IF ListedPrice(m, held[i].ticker) # None
                                         THEN ListedPrice(m, held[i].ticker)
                                         ELSE price[held[i].ticker]]],
     orders |-> IF auth = None THEN "hidden"
                ELSE IF orders # <<>> THEN "table" ELSE "No resting orders.",
     settlements |-> IF auth = None THEN "hidden"
                     ELSE IF settlements # <<>> THEN "table" ELSE "No settlements yet.",
     chart |-> IF \E t \in DirectTickers(m) : frames[t] # EmptyFrame
               THEN "chart"
               ELSE "No candlestick data available for the selected range.",
     combo_chart |-> IF \E t \in ComboChartTickers(m) : frames[t] # EmptyFrame
                     THEN "chart"
                     ELSE "No combo candlestick data available."]

\* line 471, st.cache_data.clear(): the entries of every accessor are dropped
cache_data_clear_DiscoverOnly(c) == [k \in DOMAIN c \ {DiscoverKey} |-> c[k]]

cache_data_clear(c) == <<>>

\* one run of the script at time now; clear is the "Refresh Now" button,
\* which empties every cache at the end of the run and asks for a rerun
Script(clear) ==
    LET m == Cached(cache, DiscoverKey, now, world)
        r == Cached(cache, RcpKey, now, world)
        auth == load_auth(env)
        positions == IF auth = None THEN <<>> ELSE Cached(cache, PositionsKey, now, world)
        keys == PublicKeys(m) \cup PortfolioKeys(auth, m, positions)
        frames == [t \in DirectTickers(m) \cup ComboChartTickers(m) |->
                      Cached(cache, CandlesKey(t), now, world)]
        price == [t \in {k[2] : k \in {q \in keys : q[1] = "price"}} |->
                      Cached(cache, PriceKey(t), now, world)]
        balance == IF auth = None THEN None ELSE Cached(cache, BalanceKey, now, world)
        orders == IF auth = None THEN <<>> ELSE Cached(cache, OrdersKey, now, world)
        settlements == IF auth = None THEN <<>>
                       ELSE Cached(cache, SettlementsKey, now, world)
    IN  IF r.exc # "ok"
        THEN /\ pc' = "crashed"
             /\ cache' = Store(cache, {DiscoverKey}, now, world)
             /\ requests' = Sent(cache, {DiscoverKey, RcpKey}, now, world)
             /\ UNCHANGED <<markets, rcp, house_fair, combo_implied, house_direct,
                            senate_direct, house_kalshi, house_source, senate_kalshi,
                            senate_source, signals, metric_house, metric_senate, ui>>
        ELSE /\ markets' = m
             /\ rcp' = r.v
             /\ Rendering(m, r.v, IF clear THEN "rerun" ELSE "rendered")
             /\ cache' = IF clear THEN cache_data_clear(Store(cache, keys, now, world))
                         ELSE Store(cache, keys, now, world)
             /\ requests' = Sent(cache, keys, now, world)
             /\ ui' = Sections(auth, m, combo_implied', signals', frames, balance,
                               positions, price, orders, settlements)

(***************************************************************************)
(* The render cycle over time                                              *)
(***************************************************************************)
MaxRuns == 3
MaxTicks == 10
MaxCandidates == 2

\* a script run: the page is opened, the user interacts with a widget, or
\* the page's meta refresh reloads it
RunScript ==
    /\ pc \in {"start", "rendered", "rerun", "crashed"}
    /\ runs < MaxRuns
    /\ Script(FALSE)
    /\ runs' = runs + 1
    /\ UNCHANGED <<world, env, now, arg, ret>>

\* lines 470-472: the user presses "Refresh Now"; the run it starts reaches
\* the button, empties the caches and asks for a rerun (the bound on runs
\* leaves room for that rerun)
ClickRefresh ==
    /\ pc = "rendered"
    /\ runs + 1 < MaxRuns
    /\ Script(TRUE)
    /\ runs' = runs + 1
    /\ UNCHANGED <<world, env, now, arg, ret>>

\* a minute passes
Tick ==
    /\ pc \in {"start", "rendered", "rerun", "crashed"}
    /\ now < MaxTicks * 60
    /\ now' = now + 60
    /\ UNCHANGED <<pc, markets, rcp, house_fair, combo_implied, house_direct,
                   senate_direct, house_kalshi, house_source, senate_kalshi,
                   senate_source, signals, metric_house, metric_senate, arg, ret,
                   world, env, cache, requests, ui, runs>>

\* the answers of the endpoints
GovTicker == <<"G", "-", "X">>
HouseBody == <<DollarPriced(<<"H", "-", "R">>), DollarPriced(<<"H", "-", "D">>)>>
HouseBodyMoved ==
    <<Quote(<<"H", "-", "D">>, PyNum(6250), PyNone, PyNone, PyNone)>>
SenateBody == <<DollarPriced(<<"S", "-", "R">>)>>
ComboBody == LegsOf({"RR", "RD", "DR", "DD"}, 1)
CandlesBody == <<[close |-> PyNum(5600), ts |-> TRUE], [close |-> PyNone, ts |-> TRUE]>>
PriceBody == DollarPriced(GovTicker)
BalanceBody == [balance |-> 12345, portfolio_value |-> 6789]
PositionsBody ==
    <<[ticker |-> GovTicker, position |-> 2],
      [ticker |-> <<"H", "-", "D">>, position |-> -1],
      [ticker |-> <<"S", "-", "R">>, position |-> 0]>>
OrdersBody == <<[ticker |-> <<"H", "-", "D">>, yes_price |-> 55]>>
SettlementsBody == <<[ticker |-> GovTicker, revenue |-> 100]>>

\* the texts of the poll page
NoMatch == [match |-> FALSE, dem |-> PyStr, rep |-> PyStr]
BadDem == [match |-> TRUE, dem |-> PyStr, rep |-> PyNum(452500)]
BadRep == [match |-> TRUE, dem |-> PyNum(445000), rep |-> PyStr]
GoodPair == [match |-> TRUE, dem |-> PyNum(445000), rep |-> PyNum(452500)]
Texts == {NoMatch, BadDem, BadRep, GoodPair}

PollPage(candidates, body_text) ==
    [status |-> "ok", has_body |-> TRUE, candidates |-> candidates, body_text |-> body_text]
PollFails(status) ==
    [status |-> status, has_body |-> FALSE, candidates |-> <<>>, body_text |-> NoMatch]
PollUp == PollPage(<<GoodPair>>, NoMatch)

\* the poll answers: no connection, a non-2xx status, a page without body,
\* or a page with up to MaxCandidates candidate texts and its body text
PollResponses ==
    {PollFails("exception"), PollFails("http_error")}
        \cup {[PollPage(c, b) EXCEPT !.has_body = h] :
                c \in SeqUpTo(Texts, MaxCandidates), b \in Texts, h \in BOOLEAN}

AllUp ==
    [house |-> Up(HouseBody), senate |-> Up(SenateBody), combo |-> Up(ComboBody),
     poll |-> PollUp, candles |-> Up(CandlesBody), price |-> Up(PriceBody),
     balance |-> Up(BalanceBody), positions |-> Up(PositionsBody),
     orders |-> Up(OrdersBody), settlements |-> Up(SettlementsBody)]

\* the environment of the process
Credentials == [key_id |-> "value", private_key |-> "value"]
Envs ==
    [key_id : {"unset", "empty", "blank", "value"},
     private_key : {"unset", "empty", "blank", "placeholder", "invalid", "value"}]

\* the page has not been rendered, the caches are empty
Cold ==
    /\ pc = "start"
    /\ markets = NoMarkets
    /\ rcp = Fallback
    /\ NotRendered
    /\ arg = Unset
    /\ ret = Unset
    /\ now = 0
    /\ cache = <<>>
    /\ requests = <<>>
    /\ ui = <<>>
    /\ runs = 0

\* the poll scrape over every answer of the poll page
InitPoll ==
    /\ Cold
    /\ world \in {[AllUp EXCEPT !.poll = p] : p \in PollResponses}
    /\ env = Credentials

NextPoll == RunScript

SpecPoll == InitPoll /\ [][NextPoll]_vars

\* every combination of failing calls, with and without credentials
NoCredentials == [key_id |-> "unset", private_key |-> "unset"]

Either(body) == {Up(body), Down(body)}

FailureWorlds ==
    [house : Either(HouseBody), senate : Either(SenateBody), combo : Either(ComboBody),
     poll : {PollUp, PollFails("exception")}, candles : Either(CandlesBody),
     price : Either(PriceBody), balance : Either(BalanceBody),
     positions : Either(PositionsBody), orders : Either(OrdersBody),
     settlements : Either(SettlementsBody)]

InitFailures ==
    /\ Cold
    /\ world \in FailureWorlds
    /\ env \in {Credentials, NoCredentials}

NextFailures == RunScript

SpecFailures == InitFailures /\ [][NextFailures]_vars

\* every endpoint fails
AllDown ==
    [house |-> Down(HouseBody), senate |-> Down(SenateBody), combo |-> Down(ComboBody),
     poll |-> PollFails("http_error"), candles |-> Down(CandlesBody),
     price |-> Down(PriceBody), balance |-> Down(BalanceBody),
     positions |-> Down(PositionsBody), orders |-> Down(OrdersBody),
     settlements |-> Down(SettlementsBody)]

\* the House price has moved
Moved == [AllUp EXCEPT !.house = Up(HouseBodyMoved)]

CacheWorlds == {AllUp, AllDown, Moved}

\* the endpoints change their answers between runs
WorldChanges ==
    /\ pc \in {"start", "rendered", "rerun", "crashed"}
    /\ \E w \in CacheWorlds \ {world} : world' = w
    /\ UNCHANGED <<pc, markets, rcp, house_fair, combo_implied, house_direct,
                   senate_direct, house_kalshi, house_source, senate_kalshi,
                   senate_source, signals, metric_house, metric_senate, arg, ret,
                   env, now, cache, requests, ui, runs>>

InitCache ==
    /\ Cold
    /\ world \in CacheWorlds
    /\ env \in {Credentials, NoCredentials}

NextCache == RunScript \/ ClickRefresh \/ Tick \/ WorldChanges

SpecCache == InitCache /\ [][NextCache]_vars

\* the process is restarted with another environment; the browser keeps the
\* page of the old process until the new one has rendered
Restart ==
    /\ pc = "rendered"
    /\ runs < MaxRuns
    /\ \E e \in Envs \ {env} : env' = e
    /\ cache' = <<>>
    /\ pc' = "restarted"
    /\ UNCHANGED <<markets, rcp, house_fair, combo_implied, house_direct,
                   senate_direct, house_kalshi, house_source, senate_kalshi,
                   senate_source, signals, metric_house, metric_senate, arg, ret,
                   world, now, requests, ui, runs>>

\* the first run of the restarted process
RunRestarted ==
    /\ pc = "restarted"
    /\ Script(FALSE)
    /\ runs' = runs + 1
    /\ UNCHANGED <<world, env, now, arg, ret>>

InitAuth ==
    /\ Cold
    /\ world \in {AllUp, [AllUp EXCEPT !.senate = Down(SenateBody)]}
    /\ env \in Envs

NextAuth == RunScript \/ Restart \/ RunRestarted

SpecAuth == InitAuth /\ [][NextAuth]_vars

(***************************************************************************)
(* C16-C20: failures, caches and credentials                               *)
(***************************************************************************)
Ran == pc # "start"

\* a text yields a pair: the pattern matches and both numbers parse
YieldsPair(text) == text.match /\ text.dem.kind = "num" /\ text.rep.kind = "num"

\* the scrape fails: no answer, a non-2xx status, a page without body, or no
\* text (candidates, then the body text) that yields a pair
ScrapeFails(p) ==
    \/ p.status # "ok"
    \/ ~p.has_body
    \/ /\ \A i \in 1..Len(p.candidates) : ~YieldsPair(p.candidates[i])
       /\ ~YieldsPair(p.body_text)

\* C16: when the poll scrape fails (request exception, non-2xx status, no
\* pattern match, or matched numbers that do not parse in every candidate),
\* fetch_rcp_generic returns the pair (47.0, 43.0) and does not raise, and
\* the run completes with the House fair value 74.0 computed from that pair.
C16_FallbackPair ==
    (Ran /\ ScrapeFails(world.poll))
        => /\ pc = "rendered"
           /\ cache[RcpKey].val = [exc |-> "ok", v |-> <<4700, 4300>>]
           /\ rcp = <<4700, 4300>>
           /\ house_fair = Some(740)

\* every text matched and none parsed, the run went on with the fallback
C16_Witness ==
    /\ pc = "rendered"
    /\ world.poll.status = "ok"
    /\ world.poll.has_body
    /\ world.poll.candidates = <<BadDem, BadRep>>
    /\ world.poll.body_text = BadRep
    /\ rcp = <<4700, 4300>>
    /\ house_fair = Some(740)

\* the entry of key has not reached its time-to-live
InWindow(key) == key \in DOMAIN cache /\ now < cache[key].at + TTL(key)

\* a step that runs the script to the end
RunStep == runs' = runs + 1 /\ pc' \in {"rendered", "rerun"}

\* the pipeline on a market list and a poll pair
SignalsFrom(m, r) ==
    LET implied == derive_from_combos(m.combo)
        h == HouseSelect(find_by_side(m.house, HouseSuffix), implied)
        s == SenateSelect(find_by_side(m.senate, SenateSuffix), implied)
    IN  build_signals(h.kalshi, h.source, rcp_to_house_fair_value(r[1], r[2]),
                      s.kalshi, s.source)

RerunInWindow ==
    /\ pc = "rendered"
    /\ RunStep
    /\ InWindow(DiscoverKey)
    /\ InWindow(RcpKey)

\* C17: a run of the script while the entries of the market lists and of the
\* poll pair are within their time-to-live works on the same inputs as the
\* run before and yields the same Signal list, whatever the endpoints answer
\* by then; and the Signal list shown is the pipeline's result on the cached
\* market lists and poll pair alone.
C17_SameInputsSameSignals ==
    /\ [][RerunInWindow => (markets' = markets /\ rcp' = rcp /\ signals' = signals)]_vars
    /\ [](pc = "rendered" =>
            signals = SignalsFrom(cache[DiscoverKey].val, cache[RcpKey].val.v))

\* a second run served from the caches although the House price has moved
C17_Witness ==
    /\ pc = "rendered"
    /\ runs = 2
    /\ now = 60
    /\ world = Moved
    /\ cache[DiscoverKey] = [val |-> discover_all_markets(AllUp), at |-> 0]
    /\ SeriesEndpoint("house") \notin DOMAIN requests
    /\ Len(signals) = 2
    /\ signals[1].Kalshi = 562

\* the list of a series after the run: the answer's markets, or none
ListOf(resp) == IF resp.ok THEN resp.body ELSE <<>>

HasAuth == load_auth(env) # None

CandleKeysCached == {k \in DOMAIN cache : k[1] = "candles"}

\* C18: under every combination of failing external calls the run completes;
\* each series' list is its endpoint's answer, or empty when that call
\* fails, whatever the other two calls do; a failed poll scrape gives the
\* fallback pair, failed candlestick calls empty frames, a failed balance call
\* None and failed positions, orders and settlements calls empty lists; and
\* the sections without data show "N/A", their empty-state message or, for
\* the balance row, the warning of the failed call.
C18_NoFailureIsFatal ==
    Ran =>
        /\ pc = "rendered"
        /\ markets.house = ListOf(world.house)
        /\ markets.senate = ListOf(world.senate)
        /\ markets.combo = ListOf(world.combo)
        /\ (world.poll.status # "ok" => rcp = <<4700, 4300>>)
        /\ (~world.candles.ok =>
              /\ \A k \in CandleKeysCached : cache[k].val = <<>>
              /\ ui.chart = "No candlestick data available for the selected range."
              /\ ui.combo_chart = "No combo candlestick data available.")
        /\ ((HasAuth /\ ~world.balance.ok) =>
              (cache[BalanceKey].val = None /\ ui.balance = "Balance fetch failed"))
        /\ ((HasAuth /\ ~world.positions.ok) =>
              (cache[PositionsKey].val = <<>> /\ ui.positions = "No open positions."))
        /\ ((HasAuth /\ ~world.orders.ok) =>
              (cache[OrdersKey].val = <<>> /\ ui.orders = "No resting orders."))
        /\ ((HasAuth /\ ~world.settlements.ok) =>
              (cache[SettlementsKey].val = <<>> /\ ui.settlements = "No settlements yet."))
        /\ (house_kalshi = None => metric_house.text = "N/A")
        /\ (senate_kalshi = None => metric_senate.text = "N/A")
        /\ ((~world.house.ok /\ ~world.senate.ok /\ ~world.combo.ok) =>
              /\ house_kalshi = None
              /\ senate_kalshi = None
              /\ signals = <<>>
              /\ ui.signals = "No signals available."
              /\ ui.combo = "hidden")

\* the House series and the balance call fail, the other series are intact
C18_Witness ==
    /\ pc = "rendered"
    /\ HasAuth
    /\ ~world.house.ok
    /\ world.senate.ok
    /\ world.combo.ok
    /\ ~world.balance.ok
    /\ ~world.candles.ok
    /\ markets = [house |-> <<>>, senate |-> SenateBody, combo |-> ComboBody]
    /\ house_source = ComboLabel(HouseLegs)
    /\ ui.balance = "Balance fetch failed"
    /\ ui.positions = "table"

\* the accessors every run calls (fetch_balance with credentials)
CalledEachRun ==
    {DiscoverKey, RcpKey} \cup (IF HasAuth THEN {BalanceKey} ELSE {})

\* the run sent a request to each endpoint of key, once
Attempted(key) ==
    \A e \in EndpointsOf(key) : e \in DOMAIN requests' /\ requests'[e] = 1

\* the run sent no request to any endpoint of key
NotAttempted(key) == \A e \in EndpointsOf(key) : e \notin DOMAIN requests'

\* the run was given the value the entry of key holds
Served(key) ==
    CASE key = DiscoverKey -> markets' = cache[key].val
      [] key = RcpKey -> rcp' = cache[key].val.v
      [] key = BalanceKey ->
            ui'.balance = IF cache[key].val = None THEN "Balance fetch failed"
                          ELSE "metrics"
      [] OTHER -> TRUE

\* C19: no run sends more than one request to an endpoint; while the entry
\* of an accessor is within its time-to-live a run sends no request for it
\* and is served the stored result, a failed one (empty lists, None, the
\* fallback pair) included; once the entry has expired or is gone, the next
\* run sends the request again and stores the new result.
C19_NoRetryUntilExpiry ==
    /\ [](\A e \in DOMAIN requests : requests[e] <= 1)
    /\ [][RunStep =>
            /\ \A k \in DOMAIN cache :
                  InWindow(k) =>
                    /\ NotAttempted(k)
                    /\ Served(k)
                    /\ (pc' = "rendered" => cache'[k] = cache[k])
            /\ \A k \in CalledEachRun :
                  ~InWindow(k) =>
                    /\ Attempted(k)
                    /\ (pc' = "rendered" =>
                          cache'[k] = [val |-> Fetch(k, world), at |-> now])]_vars

\* the endpoints were down at the first run; two minutes later they are up, a
\* run has fetched the market lists again and still shows the fallback pair
C19_Witness ==
    /\ pc = "rendered"
    /\ now = 120
    /\ world = AllUp
    /\ markets = discover_all_markets(AllUp)
    /\ cache[DiscoverKey].at = 120
    /\ SeriesEndpoint("house") \in DOMAIN requests
    /\ RcpKey \notin DOMAIN requests
    /\ cache[RcpKey] = [val |-> [exc |-> "ok", v |-> Fallback], at |-> 0]
    /\ rcp = Fallback

\* KALSHI_KEY_ID or KALSHI_PRIVATE_KEY is absent or empty
Absent(value) == value \in {"unset", "empty"}
MissingCredential == Absent(env.key_id) \/ Absent(env.private_key)

AuthenticatedKeys == {BalanceKey, PositionsKey, OrdersKey, SettlementsKey}

\* market discovery, signals, combo breakdown and price history on the page
PublicView ==
    <<markets, rcp, house_fair, combo_implied, house_direct, senate_direct, house_kalshi,
      house_source, senate_kalshi, senate_source, signals, metric_house, metric_senate,
      ui.signals, ui.combo, ui.chart, ui.combo_chart>>

\* the first run of a process without credentials, after one that had them
RunsWithoutAfterWith ==
    /\ pc = "restarted"
    /\ pc' = "rendered"
    /\ MissingCredential
    /\ ui.portfolio = "Portfolio"

\* C20: when KALSHI_KEY_ID or KALSHI_PRIVATE_KEY is absent or empty, a run
\* gets no KalshiAuth (the page shows the sidebar caption in place of the
\* portfolio), sends no balance, positions, orders or settlements request and
\* stores no such result; and against the same endpoints the market lists,
\* the selection, the signals, the combo breakdown and the price-history
\* charts are those of the run that had credentials.
C20_NoCredentialsNoPortfolio ==
    /\ []((pc = "rendered" /\ MissingCredential) =>
            /\ ui.portfolio = "caption"
            /\ \A k \in AuthenticatedKeys : k \notin DOMAIN requests /\ k \notin DOMAIN cache
            /\ \A k \in DOMAIN requests : k[1] # "price")
    /\ [][RunsWithoutAfterWith => PublicView' = PublicView]_vars

\* the key was removed, the process restarted and the page rendered again
C20_Witness ==
    /\ pc = "rendered"
    /\ runs = 2
    /\ env = [key_id |-> "value", private_key |-> "empty"]
    /\ world = AllUp
    /\ ui.portfolio = "caption"
    /\ ui.chart = "chart"
    /\ Len(signals) = 2
    /\ SeriesEndpoint("combo") \in DOMAIN requests

(***************************************************************************)
(* find_by_side applied on its own                                         *)
(***************************************************************************)
\* direct markets: tickers of either party, in either case, or of neither;
\* traded or not, priced or not
SideTickers ==
    {<<"H", "-", "D">>, <<"h", "-", "d">>, <<"H", "-", "R">>, <<"H", "-", "D", "X">>}

SideQuotes ==
    {[q EXCEPT !.volume = v] :
        q \in UNION {{Unpriced(t), DollarPriced(t)} : t \in SideTickers}, v \in {0, 9}}

InitFind ==
    /\ Standalone
    /\ arg \in [market_list : SeqUpTo(SideQuotes, MaxDirect),
                suffix : {HouseSuffix, SenateSuffix}]

CallFindBySide ==
    /\ pc = "call"
    /\ ret' = find_by_side(arg.market_list, arg.suffix)
    /\ pc' = "return"
    /\ UNCHANGED arg
    /\ UnchangedRender

NextFind == CallFindBySide

SpecFind == InitFind /\ [][NextFind]_vars

\* the positions whose upper-cased ticker ends with the suffix
Matching(market_list, suffix) ==
    {i \in 1..Len(market_list) : endswith(upper(market_list[i].ticker), suffix)}

OtherParty(suffix) == IF suffix = HouseSuffix THEN SenateSuffix ELSE HouseSuffix

\* C21: find_by_side returns None exactly when no upper-cased ticker ends
\* with the suffix; otherwise it returns the market at the first position
\* whose ticker does, a position fixed by the tickers alone (volume and price
\* fields play no part), and that market's ticker never ends with the other
\* party's suffix.
C21_ExactSuffixMatch ==
    Returned =>
        LET hits == Matching(arg.market_list, arg.suffix)
        IN  /\ (hits = {}) <=> (ret = None)
            /\ hits # {} =>
                  /\ \E i \in hits :
                        /\ \A j \in hits : i <= j
                        /\ ret = Some(arg.market_list[i])
                  /\ ~endswith(upper(ret[1].ticker), OtherParty(arg.suffix))

\* the lower-case, untraded, unpriced "h-d" is chosen, not the traded and
\* priced "H-R" listed before it
C21_Witness ==
    /\ Returned
    /\ arg.suffix = HouseSuffix
    /\ Len(arg.market_list) >= 2
    /\ arg.market_list[1] = [DollarPriced(<<"H", "-", "R">>) EXCEPT !.volume = 9]
    /\ arg.market_list[2] = Unpriced(<<"h", "-", "d">>)
    /\ ret = Some(arg.market_list[2])

(***************************************************************************)
(* C22-C23: expiry and manual refresh                                      *)
(***************************************************************************)
\* the entry of key is in the cache and is seconds old or older
AgedAtLeast(key, seconds) == key \in DOMAIN cache /\ now >= cache[key].at + seconds

\* the entry of key is in the cache and younger than seconds
YoungerThan(key, seconds) == key \in DOMAIN cache /\ now < cache[key].at + seconds

\* C22: the entries expire one by one. A run that refetches what has expired
\* leaves every entry still within its own time-to-live as it was, value and
\* time of storage, and sends no request for it; the passing of time alone
\* changes no entry. So a run refetches the market lists once they are 120 s
\* old while a poll pair younger than 600 s is served without a new scrape,
\* and candlesticks younger than 300 s without a new request.
C22_IndependentExpiry ==
    /\ [][(RunStep /\ pc' = "rendered") =>
            /\ \A k \in DOMAIN cache :
                  InWindow(k) => (k \in DOMAIN cache' /\ cache'[k] = cache[k]
                                    /\ NotAttempted(k))
            /\ AgedAtLeast(DiscoverKey, 120) =>
                  (Attempted(DiscoverKey) /\ cache'[DiscoverKey].at = now)
            /\ YoungerThan(RcpKey, 600) =>
                  (NotAttempted(RcpKey) /\ rcp' = cache[RcpKey].val.v)
            /\ \A k \in CandleKeysCached :
                  YoungerThan(k, 300) => NotAttempted(k)]_vars
    /\ [][now' # now => cache' = cache]_vars

\* two minutes after the first run: market lists and balance were fetched
\* again, poll pair, candlesticks and settlements are the ones stored at 0
C22_Witness ==
    /\ pc = "rendered"
    /\ now = 120
    /\ env = Credentials
    /\ CandlesKey(<<"H", "-", "D">>) \in DOMAIN cache
    /\ cache[DiscoverKey].at = 120
    /\ cache[BalanceKey].at = 120
    /\ cache[RcpKey].at = 0
    /\ cache[SettlementsKey].at = 0
    /\ cache[CandlesKey(<<"H", "-", "D">>)].at = 0
    /\ DOMAIN requests =
          {SeriesEndpoint("house"), SeriesEndpoint("senate"), SeriesEndpoint("combo"),
           BalanceKey, PositionsKey, OrdersKey, PriceKey(GovTicker)}

\* the accessors the run that ends in the next state has called
CalledThisRun ==
    {DiscoverKey, RcpKey}
        \cup {CandlesKey(t) : t \in DirectTickers(markets') \cup ComboChartTickers(markets')}
        \cup (IF HasAuth THEN AuthenticatedKeys ELSE {})

\* C23: pressing "Refresh Now" leaves no entry of any accessor in the
\* caches and asks for a rerun, which nothing blocks; the rerun sends the
\* requests for the market lists, the poll page, the candlesticks and (with
\* credentials) the portfolio again and stores their results anew, however
\* young the entries were when the button was pressed.
C23_RefreshNowRefetchesAll ==
    /\ [](pc = "rerun" => (cache = <<>> /\ runs < MaxRuns))
    /\ [][(pc = "rerun" /\ RunStep) =>
            /\ \A k \in CalledThisRun :
                  /\ Attempted(k)
                  /\ k \in DOMAIN cache'
                  /\ cache'[k] = [val |-> Fetch(k, world), at |-> now]
            /\ \A k \in DOMAIN cache' : cache'[k].at = now]_vars

\* the third run, at 60 s, has scraped the poll page again: the button was
\* pressed when the stored pair had at least nine minutes of lifetime left
C23_Witness ==
    /\ pc = "rendered"
    /\ runs = 3
    /\ now = 60
    /\ world = AllUp
    /\ env = Credentials
    /\ RcpKey \in DOMAIN requests
    /\ SettlementsKey \in DOMAIN requests
    /\ CandlesKey(<<"S", "-", "R">>) \in DOMAIN requests
    /\ cache[RcpKey].at = 60

(***************************************************************************)
(* C24: the source label of a Signal                                       *)
(***************************************************************************)
\* the record of a chamber names where its price came from: the direct
\* market when that market yields a price, else the two combo legs
Provenance(record, direct, legs, marginal) ==
    /\ record.Source # EmptyLabel
    /\ DirectPriced(direct) =>
          /\ record.Source = DirectLabel(direct[1].ticker)
          /\ Some(record.Kalshi) = get_price_pct(direct[1])
    /\ ~DirectPriced(direct) =>
          /\ record.Source = ComboLabel(legs)
          /\ combo_implied # None
          /\ record.Kalshi = marginal

\* C24: every Signal of a render cycle has a non-empty source label, and the
\* label names the source of its price: "direct (<ticker>)" exactly when the
\* chamber's direct market yields a price, which is then the Signal's
\* "Kalshi %"; "combo-implied (DR+DD)" for the House and "combo-implied
\* (RR+DR)" for the Senate exactly when it does not, and "Kalshi %" is then
\* the dem_house or rep_senate marginal of derive_from_combos.
C24_LabelNamesTheSource ==
    Rendered =>
        \A i \in 1..Len(signals) :
            /\ signals[i].Market = "Dem House Control" =>
                  Provenance(signals[i], house_direct, HouseLegs,
                             IF combo_implied # None THEN combo_implied[1].dem_house ELSE 0)
            /\ signals[i].Market = "Rep Senate Control" =>
                  Provenance(signals[i], senate_direct, SenateLegs,
                             IF combo_implied # None THEN combo_implied[1].rep_senate ELSE 0)

\* the House market is listed without a price, the Senate market is priced:
\* the House Signal is labelled with the combo legs, the Senate one direct
C24_Witness ==
    /\ Rendered
    /\ house_direct # None
    /\ ~DirectPriced(house_direct)
    /\ Len(signals) = 2
    /\ signals[1].Source = ComboLabel(HouseLegs)
    /\ signals[1].Kalshi = 500
    /\ signals[2].Source = DirectLabel(<<"S", "-", "R">>)
    /\ signals[2].Kalshi = 562


(***************************************************************************)
(* The classification loop of derive_from_combos on its own: the prices    *)
(* dict as it stands when the loop over the combo quotes ends, before the  *)
(* four-bucket test.                                                       *)
(***************************************************************************)
InitBuckets ==
    /\ Standalone
    /\ arg \in SeqUpTo(ComboQuotes, MaxCombo)

CallFillPrices ==
    /\ pc = "call"
    /\ ret' = FillPrices(arg, 1, EmptyDict)
    /\ pc' = "return"
    /\ UNCHANGED arg
    /\ UnchangedRender

NextBuckets == CallFillPrices

SpecBuckets == InitBuckets /\ [][NextBuckets]_vars

\* the buckets a ticker belongs to
BucketsOf(ticker) ==
    {suffix \in SuffixSet : endswith(upper(ticker), DashSuffix(suffix))}

\* the last element of a non-empty set of list positions
LastOf(S) == CHOOSE i \in S : \A j \in S : j <= i

\* C25: every ticker belongs to at most one of the buckets -RR, -RD, -DR,
\* -DD; after the loop of derive_from_combos the prices dict has a key for
\* exactly the buckets with a priced quote, each holding the price of the
\* last priced quote of that bucket in list order: quotes of no bucket and
\* quotes without a price leave the dict as it was.
C25_LastPricedQuoteWins ==
    Returned =>
        /\ \A i \in 1..Len(arg) : Cardinality(BucketsOf(arg[i].ticker)) <= 1
        /\ Len(ret) = 1
        /\ DOMAIN ret[1] = {suffix \in SuffixSet : PricedIn(arg, suffix) # {}}
        /\ \A suffix \in DOMAIN ret[1] :
              Some(ret[1][suffix]) = get_price_pct(arg[LastOf(PricedIn(arg, suffix))])

\* two priced -RR quotes at 30.0 and 20.0, then a -RR quote without a price
\* and a priced quote of no bucket: the RR bucket holds 20.0 and is alone
C25_Witness ==
    /\ Returned
    /\ Len(arg) = 4
    /\ \A i \in 1..3 : BucketsOf(arg[i].ticker) = {"RR"}
    /\ get_price_pct(arg[1]) = Some(300)
    /\ get_price_pct(arg[2]) = Some(200)
    /\ get_price_pct(arg[3]) = None
    /\ BucketsOf(arg[4].ticker) = {}
    /\ get_price_pct(arg[4]) # None
    /\ ret = Some([s \in {"RR"} |-> 200])


(***************************************************************************)
(* election_dashboard.py: the single-file variant of the script.  Its      *)
(* functions carry the names of the modular ones, so they are prefixed     *)
(* with mono_ here; float, round, str.upper and str.endswith are Python's. *)
(***************************************************************************)
mono_Caught == {"ValueError", "TypeError"}

\* lines 39-45 and 47-53: one "for field in [...]" loop of get_price_pct
RECURSIVE mono_TryFields(_, _, _, _)
mono_TryFields(market, fields, i, scale) ==
    IF i > Len(fields) THEN None
    ELSE LET val == market[fields[i]]
             f == float(val)
         IN  IF val.kind = "None" THEN mono_TryFields(market, fields, i + 1, scale)
             ELSE IF f.exc = "ok" THEN Some(round1(f.v * scale, 10000))
             ELSE IF f.exc \in mono_Caught
                  THEN mono_TryFields(market, fields, i + 1, scale)
                  ELSE Raise(f.exc)

mono_get_price_pct(market) ==
    LET dollars == mono_TryFields(market, <<"yes_bid_dollars", "last_price_dollars">>, 1, 100)
    IN  IF dollars # None THEN dollars
        ELSE mono_TryFields(market, <<"yes_bid", "last_price">>, 1, 1)

\* lines 260-267: the if/elif chain over the ticker's ending
mono_Classify(ticker, prices, pct) ==
    IF endswith(ticker, <<"-", "R", "R">>) THEN Put(prices, "RR", pct)
    ELSE IF endswith(ticker, <<"-", "R", "D">>) THEN Put(prices, "RD", pct)
    ELSE IF endswith(ticker, <<"-", "D", "R">>) THEN Put(prices, "DR", pct)
    ELSE IF endswith(ticker, <<"-", "D", "D">>) THEN Put(prices, "DD", pct)
    ELSE prices

RECURSIVE mono_FillPrices(_, _, _)
mono_FillPrices(combo_markets, i, prices) ==
    IF i > Len(combo_markets) THEN Some(prices)
    ELSE LET ticker == upper(combo_markets[i].ticker)
             pct == mono_get_price_pct(combo_markets[i])
         IN  IF IsRaise(pct) THEN pct
             ELSE IF pct = None THEN mono_FillPrices(combo_markets, i + 1, prices)
             ELSE mono_FillPrices(combo_markets, i + 1,
                                  mono_Classify(ticker, prices, pct[1]))

mono_derive_from_combos(combo_markets) ==
    LET filled == mono_FillPrices(combo_markets, 1, EmptyDict)
    IN  IF IsRaise(filled) THEN filled
        ELSE IF Cardinality(DOMAIN filled[1]) < 4 THEN None
        ELSE LET prices == filled[1]
             IN  Some([dem_house |-> round1(prices["DR"] + prices["DD"], 10),
                       rep_house |-> round1(prices["RR"] + prices["RD"], 10),
                       rep_senate |-> round1(prices["RR"] + prices["DR"], 10),
                       dem_senate |-> round1(prices["RD"] + prices["DD"], 10),
                       combos |-> prices])

\* the probability follows the seat estimate's slope of 4.5 per point
mono_rcp_to_house_fair_value_SeatSlope(dem_generic, rep_generic) ==
    LET margin == dem_generic - rep_generic
        house_prob == Max(10000, Min(90000, 50000 + (margin * 45)))
    IN  round1(house_prob, 1000)

\* lines 314-324; implied_seats (in thousandths of a seat) is computed and
\* never read
mono_rcp_to_house_fair_value(dem_generic, rep_generic) ==
    LET margin == dem_generic - rep_generic
        implied_seats == 218000 + (margin * 45)
        house_prob == Max(1000, Min(9000, 5000 + (margin * 6)))
    IN  round1(house_prob, 100)

mono_SENATE_RCP_FAIR == 580

RECURSIVE mono_FindFrom(_, _, _)
mono_FindFrom(market_list, suffix, i) ==
    IF i > Len(market_list) THEN None
    ELSE IF endswith(upper(market_list[i].ticker), upper(suffix))
         THEN Some(market_list[i])
         ELSE mono_FindFrom(market_list, suffix, i + 1)

mono_find_by_side(market_list, suffix) == mono_FindFrom(market_list, suffix, 1)

\* lines 350-357 (House) and 359-366 (Senate): the two if statements, in
\* order, over the [kalshi, source] pair; a found market is a non-empty dict
mono_Select(direct, implied, marginal, legs) ==
    LET first == IF direct # None
                 THEN [kalshi |-> mono_get_price_pct(direct[1]),
                       source |-> DirectLabel(direct[1].ticker)]
                 ELSE [kalshi |-> None, source |-> EmptyLabel]
    IN  IF first.kalshi = None /\ implied # None
        THEN [kalshi |-> Some(marginal), source |-> ComboLabel(legs)]
        ELSE first

\* lines 388-418: the inline signal blocks
mono_Signals(h_kalshi, h_source, h_fair, s_kalshi, s_source) ==
    LET h_edge == round1(h_kalshi[1] - h_fair, 10)
        s_edge == round1(s_kalshi[1] - mono_SENATE_RCP_FAIR, 10)
        first ==
            IF h_kalshi # None
            THEN <<[Market |-> "Dem House Control", Kalshi |-> h_kalshi[1],
                    Source |-> h_source, Fair |-> h_fair, Edge |-> h_edge,
                    Signal |-> IF h_edge > 80 THEN "Strong Buy"
                               ELSE IF h_edge < -80 THEN "Strong Sell" ELSE "Watch"]>>
            ELSE <<>>
    IN  IF s_kalshi # None
        THEN Append(first,
                    [Market |-> "Rep Senate Control", Kalshi |-> s_kalshi[1],
                     Source |-> s_source, Fair |-> mono_SENATE_RCP_FAIR, Edge |-> s_edge,
                     Signal |-> IF s_edge > 50 THEN "Sell"
                                ELSE IF s_edge < -50 THEN "Buy" ELSE "Watch"])
        ELSE first

\* lines 328-418: the globals of the single-file script after one run over
\* the market lists m and the poll pair r, or the exception that ends it
mono_Script(m, r) ==
    LET fair == mono_rcp_to_house_fair_value(r[1], r[2])
        implied == mono_derive_from_combos(m.combo)
        hd == mono_find_by_side(m.house, <<"-", "D">>)
        sd == mono_find_by_side(m.senate, <<"-", "R">>)
        h == mono_Select(hd, implied, IF Len(implied) = 1 THEN implied[1].dem_house ELSE 0,
                         HouseLegs)
        s == mono_Select(sd, implied, IF Len(implied) = 1 THEN implied[1].rep_senate ELSE 0,
                         SenateLegs)
    IN  IF IsRaise(implied) THEN implied
        ELSE IF IsRaise(h.kalshi) THEN h.kalshi
        ELSE IF IsRaise(s.kalshi) THEN s.kalshi
        ELSE Some([house_fair |-> fair,
                   combo_implied |-> implied,
                   house_direct |-> hd,
                   senate_direct |-> sd,
                   house_kalshi |-> h.kalshi,
                   house_source |-> h.source,
                   senate_kalshi |-> s.kalshi,
                   senate_source |-> s.source,
                   signals |-> mono_Signals(h.kalshi, h.source, fair, s.kalshi, s.source)])


(***************************************************************************)
(* Both variants over the same market lists and poll pair: app.py leaves   *)
(* its globals in the render variables, election_dashboard.py in ret.      *)
(***************************************************************************)
\* a market whose dollar fields do not parse and whose price is in cents
Garbled(ticker) == Quote(ticker, PyStr, PyList, PyNone, PyNum(415000))

VariantHouse ==
    {Unpriced(<<"H", "-", "D">>), DollarPriced(<<"H", "-", "D">>),
     Garbled(<<"h", "-", "d">>), DollarPriced(<<"H", "-", "R">>)}

VariantSenate ==
    {Unpriced(<<"S", "-", "R">>), ZeroPriced(<<"S", "-", "R">>),
     Garbled(<<"s", "-", "r">>), DollarPriced(<<"S", "-", "D">>)}

\* no legs, three, the four, the four with DD repriced later in the list,
\* the four after an unlisted outcome, and the four with DR unpriced
VariantCombos ==
    {<<>>,
     LegsOf({"RR", "RD", "DD"}, 1),
     LegsOf(SuffixSet, 1),
     LegsOf(SuffixSet, 1) \o <<Garbled(<<"c", "-", "d", "d">>)>>,
     <<Garbled(<<"C", "-", "D">>)>> \o LegsOf(SuffixSet, 1),
     LegsOf({"RR", "RD"}, 1) \o <<Unpriced(<<"C", "-", "D", "R">>)>> \o LegsOf({"DD"}, 1)}

\* the fallback pair, a scraped pair, and pairs beyond either clamp
VariantPairs == RcpPairs \cup {<<5500, 3000>>, <<3000, 5500>>}

InitVariants ==
    /\ pc = "start"
    /\ Idle
    /\ markets \in [house : SeqUpTo(VariantHouse, MaxDirect),
                    senate : SeqUpTo(VariantSenate, MaxDirect),
                    combo : VariantCombos]
    /\ rcp \in VariantPairs
    /\ NotRendered
    /\ arg = Unset
    /\ ret = Unset

\* one run of election_dashboard.py over the same inputs
RunMonolith ==
    /\ ret = Unset
    /\ ret' = mono_Script(markets, rcp)
    /\ UNCHANGED <<pc, markets, rcp, arg, cyclevars>>
    /\ UNCHANGED <<house_fair, combo_implied, house_direct, senate_direct, house_kalshi,
                   house_source, senate_kalshi, senate_source, signals, metric_house,
                   metric_senate>>

NextVariants == RenderCycle \/ RunMonolith

SpecVariants == InitVariants /\ [][NextVariants]_vars

\* every market of the three lists
Listed == {markets.house[i] : i \in 1..Len(markets.house)}
          \cup {markets.senate[i] : i \in 1..Len(markets.senate)}
          \cup {markets.combo[i] : i \in 1..Len(markets.combo)}

BothRan == pc \in {"rendered", "crashed"} /\ ret # Unset

\* C26: over the same market lists and poll pair, election_dashboard.py and
\* app.py (with kalshi_client.py and models.py) give every listed market the
\* same normalized price, and once both have run they end the same way, with
\* the same derive_from_combos result, the same direct markets, the same
\* selected price and source label for each chamber, the same House fair
\* value and the same Signal list.
C26_VariantsAgree ==
    /\ \A q \in Listed : mono_get_price_pct(q) = get_price_pct(q)
    /\ BothRan =>
          /\ pc = "rendered" <=> Len(ret) = 1
          /\ pc = "rendered" =>
                /\ Some(ret[1].house_fair) = house_fair
                /\ ret[1].combo_implied = combo_implied
                /\ ret[1].house_direct = house_direct
                /\ ret[1].senate_direct = senate_direct
                /\ ret[1].house_kalshi = house_kalshi
                /\ ret[1].house_source = house_source
                /\ ret[1].senate_kalshi = senate_kalshi
                /\ ret[1].senate_source = senate_source
                /\ ret[1].signals = signals

\* both variants have run over a lower-case House ticker priced in cents
\* behind unparseable dollar fields, an unpriced Senate market and four legs
\* with DD listed twice: both select 41.5 direct and the marginal 30+15 = 45.0
\* for the Senate, and both emit the two Signals
C26_Witness ==
    /\ BothRan
    /\ Len(ret) = 1
    /\ Len(markets.combo) = 5
    /\ ret[1].house_source = DirectLabel(<<"h", "-", "d">>)
    /\ ret[1].house_kalshi = Some(415)
    /\ house_kalshi = Some(415)
    /\ ret[1].combo_implied # None
    /\ ret[1].combo_implied[1].combos["DD"] = 415
    /\ ret[1].senate_source = ComboLabel(SenateLegs)
    /\ senate_kalshi = Some(450)
    /\ Len(ret[1].signals) = 2
    /\ ret[1].signals = signals

====
